---- MODULE Spec2Model ----
(***************************************************************************)
(* ShadowSwap: the Bitcoin HTLC client library, the DarkPool contract and  *)
(* the frontend's swap simulation.                                         *)
(*                                                                         *)
(* The repository carries two copies of the HTLC module:                   *)
(*   - src/unnamed/part_000 (lines 128-644), the copy with the input       *)
(*     validator (toBuffer, assert*, createKeyPair);                       *)
(*   - src/backend/client/src/btc-htlc.ts (lines 1-469), a copy without    *)
(*     it; its definitions carry the suffix _legacy here.                  *)
(* A caller imports one of them; the variable call.module says which.      *)
(* hexRe is the RegExp object the first copy keeps at module level, and    *)
(* history the calls a caller has finished.                                *)
(* pool is the DarkPool contract on Starknet with the tokens it holds, and *)
(* ui the state of the frontend's Home component.                          *)
(*                                                                         *)
(* Values:                                                                 *)
(*   - a Buffer is a sequence of bytes (0..255);                           *)
(*   - a JavaScript string is a sequence of one-character strings;         *)
(*   - a `string | Buffer` argument is [t |-> "str"|"buf", v |-> ...];     *)
(*   - a JavaScript number is [i |-> n, half |-> b], the value n, or       *)
(*     n + 0.5 when b (a non-integral number);                             *)
(*   - an Error is [site |-> the throwing function, msg |-> its message as *)
(*     a sequence of tokens].                                              *)
(* bitcoinjs-lib, ecpair and tiny-secp256k1 are not part of the            *)
(* repository: their calls are modelled at the call site by what the       *)
(* library does with the value (compile, p2wsh, Psbt), with the elliptic   *)
(* curve and SHA-256 uninterpreted.                                        *)
(***************************************************************************)
EXTENDS Integers, Sequences, FiniteSets, TLC

VARIABLES call, pc, result, hexRe, history, pool, ui

vars == <<call, pc, result, hexRe, history, pool, ui>>

(***************************************************************************)
(* Bytes, strings, numbers                                                 *)
(***************************************************************************)
Rep(x, n) == [k \in 1..n |-> x]

Reverse(s) == [k \in 1..Len(s) |-> s[Len(s) + 1 - k]]

Str(v) == [t |-> "str", v |-> v]

Buf(v) == [t |-> "buf", v |-> v]

Num(n) == [i |-> n, half |-> FALSE]

Half(n) == [i |-> n, half |-> TRUE]

\* Number.isInteger(x)
IsInteger(x) == ~x.half

\* x < k, x > k for an integer k
NumLt(x, k) == x.i < k

NumGt(x, k) == x.i > k \/ (x.i = k /\ x.half)

\* x in half units, for subtraction and comparison of two numbers
Halves(x) == 2 * x.i + (IF x.half THEN 1 ELSE 0)

NumSub(a, b) ==
    LET h == Halves(a) - Halves(b)
    IN  [i |-> (h - (h % 2)) \div 2, half |-> h % 2 = 1]

NumGeq(a, b) == Halves(a) >= Halves(b)

LowerHex == <<"0", "1", "2", "3", "4", "5", "6", "7", "8", "9", "a", "b", "c", "d", "e", "f">>

UpperHex == <<"0", "1", "2", "3", "4", "5", "6", "7", "8", "9", "A", "B", "C", "D", "E", "F">>

IsHexChar(c) == \E k \in 1..16 : LowerHex[k] = c \/ UpperHex[k] = c

HexVal(c) == (CHOOSE k \in 1..16 : LowerHex[k] = c \/ UpperHex[k] = c) - 1

\* HEX_RE.test(s): /^[0-9a-fA-F]+$/
HEX_RE(s) == Len(s) > 0 /\ \A k \in 1..Len(s) : IsHexChar(s[k])

\* Buffer.from(s, 'hex'): decoding stops at the first pair that is not two hex
\* digits (and drops a trailing odd character)
HexPairs(s) ==
    LET n == Len(s) \div 2
        bad == {k \in 1..n : ~(IsHexChar(s[2 * k - 1]) /\ IsHexChar(s[2 * k]))}
    IN  IF bad = {} THEN n ELSE (CHOOSE k \in bad : \A j \in bad : k <= j) - 1

BufferFromHex(s) ==
    [k \in 1..HexPairs(s) |-> 16 * HexVal(s[2 * k - 1]) + HexVal(s[2 * k])]

\* buf.toString('hex')
ToHex(b) ==
    [k \in 1..(2 * Len(b)) |->
        IF k % 2 = 1 THEN LowerHex[(b[(k + 1) \div 2] \div 16) + 1]
                     ELSE LowerHex[(b[k \div 2] % 16) + 1]]

(***************************************************************************)
(* Errors                                                                  *)
(***************************************************************************)
Lit(s) == [k |-> "lit", v |-> s]

Val(x) == [k |-> "val", v |-> x]

Lits(ss) == [k \in 1..Len(ss) |-> Lit(ss[k])]

NoError == [site |-> "none", msg |-> <<>>]

Error(site, msg) == [site |-> site, msg |-> msg]

\* assert.throws(..., /pattern/): the words of the pattern occur in the message
Matches(msg, pattern) ==
    \E k \in 0..(Len(msg) - Len(pattern)) :
        \A j \in 1..Len(pattern) : msg[k + j].k = "lit" /\ msg[k + j].v = pattern[j]

(***************************************************************************)
(* Input validator: src/unnamed/part_000, lines 147-203                    *)
(***************************************************************************)
MAX_TIMEOUT == 16777215

\* Number.MAX_SAFE_INTEGER is 2^53 - 1; the model's numbers stay below 2^31, so
\* the largest integer of the model stands for it: no input exceeds either.
MAX_SAFE_INTEGER == 2147483647

\* toBuffer(input, inputName): [err, buf]
toBuffer(input, inputName) ==
    IF input.t = "buf" THEN [err |-> NoError, buf |-> input.v]
    ELSE IF Len(input.v) = 0
    THEN [err |-> Error("toBuffer", Lits(<<inputName, "cannot", "be", "empty">>)), buf |-> <<>>]
    ELSE IF Len(input.v) % 2 # 0 \/ ~HEX_RE(input.v)
    THEN [err |-> Error("toBuffer",
                        Lits(<<inputName, "must", "be", "a", "valid", "even-length", "hex", "string">>)),
          buf |-> <<>>]
    ELSE [err |-> NoError, buf |-> BufferFromHex(input.v)]

\* assertBufferLength(buf, expectedLength, inputName); inputName as its words
assertBufferLength_atMost(buf, expectedLength, inputName) ==
    IF Len(buf) > expectedLength
    THEN Error("assertBufferLength",
               <<Lit("Invalid")>> \o Lits(inputName)
               \o <<Lit("length"), Lit(":"), Lit("expected"), Val(expectedLength),
                    Lit("bytes"), Lit(","), Lit("got"), Val(Len(buf))>>)
    ELSE NoError

assertBufferLength(buf, expectedLength, inputName) ==
    IF Len(buf) # expectedLength
    THEN Error("assertBufferLength",
               <<Lit("Invalid")>> \o Lits(inputName)
               \o <<Lit("length"), Lit(":"), Lit("expected"), Val(expectedLength),
                    Lit("bytes"), Lit(","), Lit("got"), Val(Len(buf))>>)
    ELSE NoError

assertIntegerRange(value, inputName, min, max) ==
    IF ~IsInteger(value) \/ NumLt(value, min) \/ NumGt(value, max)
    THEN Error("assertIntegerRange",
               <<Lit("Invalid"), Lit(inputName), Lit(":"), Lit("expected"), Lit("integer"),
                 Lit("in"), Lit("["), Val(min), Lit(","), Val(max), Lit("]"), Lit(","),
                 Lit("got"), Val(value)>>)
    ELSE NoError

\* The first error of a sequence of checks run in order (NoError when all pass)
FirstError(errs) ==
    LET bad == {k \in 1..Len(errs) : errs[k].site # "none"}
    IN  IF bad = {} THEN NoError ELSE errs[CHOOSE k \in bad : \A j \in bad : k <= j]

assertValidTxInput(prevTxId, prevIndex, amountSats, feeSats) ==
    FirstError(<<
        IF ~HEX_RE(prevTxId) \/ Len(prevTxId) # 64
        THEN Error("assertValidTxInput",
                   Lits(<<"Invalid", "prevTxId", ":", "expected", "a", "32-byte", "hex", "string">>))
        ELSE NoError,
        assertIntegerRange(prevIndex, "prevIndex", 0, MAX_SAFE_INTEGER),
        assertIntegerRange(amountSats, "amountSats", 1, MAX_SAFE_INTEGER),
        assertIntegerRange(feeSats, "feeSats", 1, MAX_SAFE_INTEGER),
        IF NumGeq(feeSats, amountSats)
        THEN Error("assertValidTxInput",
                   <<Lit("feeSats"), Lit("("), Val(feeSats), Lit(")"), Lit("must"), Lit("be"),
                     Lit("lower"), Lit("than"), Lit("amountSats"), Lit("("), Val(amountSats),
                     Lit(")")>>)
        ELSE NoError >>)

(***************************************************************************)
(* Script numbers and script compilation                                   *)
(***************************************************************************)
RECURSIVE LittleEndian(_)
\* while (absValue > 0) { result.push(absValue & 0xff); absValue >>= 8; }
\* for an integer absValue
LittleEndian(n) == IF n <= 0 THEN <<>> ELSE <<n % 256>> \o LittleEndian(n \div 256)

\* Math.abs(x)
NumAbs(x) ==
    IF x.i >= 0 THEN x
    ELSE IF x.half THEN Half(0 - x.i - 1) ELSE Num(0 - x.i)

\* encodeScriptNumber with the extra byte pushed whatever the high bit is
encodeScriptNumber_alwaysSignByte(num) ==
    IF num.i = 0 /\ ~num.half THEN <<>>
    ELSE <<NumAbs(num).i % 256>> \o LittleEndian(NumAbs(num).i \div 256)
         \o <<IF num.i < 0 THEN 128 ELSE 0>>

\* encodeScriptNumber without the byte that keeps the sign bit clear
encodeScriptNumber_noSignByte(num) ==
    IF num.i = 0 /\ ~num.half THEN <<>>
    ELSE <<NumAbs(num).i % 256>> \o LittleEndian(NumAbs(num).i \div 256)

\* encodeScriptNumber(num). `& 0xff` and `>>= 8` take the integer part of a
\* non-integral number, so the loop runs once on it and continues on integers.
encodeScriptNumber(num) ==
    IF num.i = 0 /\ ~num.half THEN <<>>
    ELSE LET negative == num.i < 0
             absValue == NumAbs(num)
             bytes == <<absValue.i % 256>> \o LittleEndian(absValue.i \div 256)
             last == bytes[Len(bytes)]
         IN  IF last >= 128
             THEN bytes \o <<IF negative THEN 128 ELSE 0>>
             ELSE IF negative
             THEN [bytes EXCEPT ![Len(bytes)] = last + 128]
             ELSE bytes

OP_0 == 0

OP_PUSHDATA1 == 76

OP_PUSHDATA2 == 77

OP_1NEGATE == 79

OP_RESERVED == 80

OP_IF == 99

OP_ELSE == 103

OP_ENDIF == 104

OP_DROP == 117

OP_EQUALVERIFY == 136

OP_SHA256 == 168

OP_CHECKSIG == 172

OP_CHECKSEQUENCEVERIFY == 178

\* The elements handed to bitcoin.script.compile: an opcode or a Buffer
Op(n) == [k |-> "op", v |-> n]

Data(b) == [k |-> "data", v |-> b]

NoOp == 0 - 1

\* bitcoinjs-lib asMinimalOP: the opcode that pushes the same value, or NoOp
asMinimalOP(b) ==
    IF Len(b) = 0 THEN OP_0
    ELSE IF Len(b) # 1 THEN NoOp
    ELSE IF b[1] >= 1 /\ b[1] <= 16 THEN OP_RESERVED + b[1]
    ELSE IF b[1] = 129 THEN OP_1NEGATE
    ELSE NoOp

\* bitcoinjs-lib pushdata.encode: the length prefix of a data push
PushPrefix(n) ==
    IF n < OP_PUSHDATA1 THEN <<n>>
    ELSE IF n <= 255 THEN <<OP_PUSHDATA1, n>>
    ELSE <<OP_PUSHDATA2, n % 256, n \div 256>>

CompileChunk(c) ==
    IF c.k = "op" THEN <<c.v>>
    ELSE IF asMinimalOP(c.v) # NoOp THEN <<asMinimalOP(c.v)>>
    ELSE PushPrefix(Len(c.v)) \o c.v

RECURSIVE compile(_)
\* bitcoin.script.compile(chunks)
compile(chunks) ==
    IF chunks = <<>> THEN <<>>
    ELSE CompileChunk(Head(chunks)) \o compile(Tail(chunks))

RECURSIVE DecompileFrom(_, _)
\* bitcoinjs-lib script.decompile from offset i: the chunks, or <<"null">> as the
\* last chunk when a push runs past the end of the script
DecompileFrom(b, i) ==
    IF i > Len(b) THEN <<>>
    ELSE LET o == b[i]
         IN  IF o > OP_0 /\ o <= OP_PUSHDATA1
             THEN LET direct == o < OP_PUSHDATA1
                      lenOk == direct \/ i + 1 <= Len(b)
                      n == IF direct THEN o ELSE IF lenOk THEN b[i + 1] ELSE 0
                      from == IF direct THEN i + 1 ELSE i + 2
                  IN  IF ~lenOk \/ from + n - 1 > Len(b)
                      THEN <<[k |-> "null", v |-> 0]>>
                      ELSE LET d == SubSeq(b, from, from + n - 1)
                           IN  <<IF asMinimalOP(d) # NoOp THEN Op(asMinimalOP(d)) ELSE Data(d)>>
                               \o DecompileFrom(b, from + n)
             ELSE <<Op(o)>> \o DecompileFrom(b, i + 1)

decompile(b) == DecompileFrom(b, 1)

Decompiles(b) == LET d == decompile(b) IN \A k \in 1..Len(d) : d[k].k # "null"

(***************************************************************************)
(* The libraries: curve, hash, networks, addresses, P2WSH                  *)
(***************************************************************************)
TESTNET == [name |-> "testnet", bech32 |-> "tb"]

MAINNET == [name |-> "bitcoin", bech32 |-> "bc"]

\* The order of the secp256k1 group, big-endian
GroupOrder ==
    <<255, 255, 255, 255, 255, 255, 255, 255, 255, 255, 255, 255, 255, 255, 255, 254,
      186, 174, 220, 230, 175, 72, 160, 59, 191, 210, 94, 140, 208, 54, 65, 65>>

\* a < b for two big-endian byte strings of the same length
BytesLess(a, b) ==
    \E k \in 1..Len(a) : a[k] < b[k] /\ \A j \in 1..(k - 1) : a[j] = b[j]

\* isPrivate that looks at the length alone
isPrivate_lengthOnly(d) == Len(d) = 32

\* tiny-secp256k1 isPrivate: 32 bytes, not zero, below the group order
isPrivate(d) ==
    /\ Len(d) = 32
    /\ \E k \in 1..32 : d[k] # 0
    /\ BytesLess(d, GroupOrder)

\* The compressed public key of a private key (the curve is uninterpreted: an
\* injective stand-in for the scalar multiplication)
PublicKeyOf(d) == <<2 + (d[Len(d)] % 2)>> \o [k \in 1..Len(d) |-> (d[k] + k) % 256]

\* tiny-secp256k1 isPoint on a 33-byte value: a compressed encoding of a curve
\* point, here the public key of some valid private key
isPoint(q) ==
    /\ Len(q) = 33
    /\ q[1] \in {2, 3}
    /\ LET d == [k \in 1..32 |-> (q[k + 1] + 256 - k) % 256]
       IN  isPrivate(d) /\ PublicKeyOf(d) = q

RECURSIVE ByteSum(_, _, _)
ByteSum(b, lo, hi) ==
    IF lo > hi THEN 0
    ELSE IF lo = hi THEN (b[lo] * lo) % 256
    ELSE LET mid == (lo + hi) \div 2
         IN  (ByteSum(b, lo, mid) + ByteSum(b, mid + 1, hi)) % 256

\* bitcoin.crypto.sha256 (uninterpreted: a 32-byte digest of the data)
Sha256(b) ==
    LET s == ByteSum(b, 1, Len(b))
    IN  [k \in 1..32 |-> (s + 7 * Len(b) + 13 * k) % 256]

\* ECDSA signature of the input's signature hash with SIGHASH_ALL appended
\* (uninterpreted: it names the signing key)
Signature(d) == <<48>> \o SubSeq(PublicKeyOf(d), 2, 5) \o <<1>>

\* An address: its text, and what its decoding yields (prefix and program)
Address(text, hrp, prog) == [text |-> text, hrp |-> hrp, prog |-> prog]

\* bitcoin.address.toOutputScript(address, network): [ok, script]
toOutputScript(address, network) ==
    IF address.hrp = network.bech32 /\ Len(address.prog) \in {20, 32}
    THEN [ok |-> TRUE, script |-> <<OP_0, Len(address.prog)>> \o address.prog]
    ELSE [ok |-> FALSE, script |-> <<>>]

\* bitcoin.payments.p2wsh({redeem: {output, network}, network}); it throws on a
\* script that is empty or does not decompile
p2wsh(redeemScript, network) ==
    LET hash == Sha256(redeemScript)
    IN  [ok |-> Len(redeemScript) > 0 /\ Decompiles(redeemScript),
         hash |-> hash,
         output |-> <<OP_0, 32>> \o hash,
         address |-> Address("p2wsh", network.bech32, hash)]

(***************************************************************************)
(* Witness serializer: src/unnamed/part_000, lines 549-584                 *)
(***************************************************************************)
\* The argument of writeVarInt is a JavaScript number that may exceed 32 bits:
\* a non-negative safe integer is kept as its four 16-bit words, least
\* significant first (the fourth word stays below 2^5, since n < 2^53)
Wide(n) == <<n % 65536, n \div 65536, 0, 0>>

\* buf.writeUInt16LE(w)
UInt16LE(w) == <<w % 256, w \div 256>>

\* The variant that writes every length above 0xfc behind the 0xfd marker
writeVarInt_twoByteOnly(n) ==
    IF n[2] = 0 /\ n[3] = 0 /\ n[4] = 0 /\ n[1] < 253 THEN <<n[1]>>
    ELSE <<253>> \o UInt16LE(n[1])

\* writeVarInt(n), lines 552-572: the branches n < 0xfd, n <= 0xffff,
\* n <= 0xffffffff and the rest, where writeUInt32LE(n >>> 0, 1) writes the low
\* 32 bits and writeUInt32LE((n / 0x100000000) | 0, 5) the high ones
writeVarInt(n) ==
    IF n[2] = 0 /\ n[3] = 0 /\ n[4] = 0 /\ n[1] < 253 THEN <<n[1]>>
    ELSE IF n[2] = 0 /\ n[3] = 0 /\ n[4] = 0 THEN <<253>> \o UInt16LE(n[1])
    ELSE IF n[3] = 0 /\ n[4] = 0 THEN <<254>> \o UInt16LE(n[1]) \o UInt16LE(n[2])
    ELSE <<255>> \o UInt16LE(n[1]) \o UInt16LE(n[2]) \o UInt16LE(n[3]) \o UInt16LE(n[4])

\* The variant that writes the item without its length
writeVarSlice_noLength(slice) == slice

\* writeVarSlice(slice), lines 574-576; slice.length is below 2^31
writeVarSlice(slice) == writeVarInt(Wide(Len(slice))) \o slice

RECURSIVE ConcatSlices(_)
\* for (const w of witness) writeVarSlice(w): the slices in stack order (the
\* stack is halved rather than walked, which keeps the evaluation shallow)
ConcatSlices(witness) ==
    IF witness = <<>> THEN <<>>
    ELSE IF Len(witness) = 1 THEN writeVarSlice(witness[1])
    ELSE LET mid == Len(witness) \div 2
         IN  ConcatSlices(SubSeq(witness, 1, mid))
             \o ConcatSlices(SubSeq(witness, mid + 1, Len(witness)))

witnessStackToScriptWitness(witness) ==
    writeVarInt(Wide(Len(witness))) \o ConcatSlices(witness)

\* bitcoinjs-lib varuint.decode at offset i: [value, size]
ReadVarInt(b, i) ==
    IF b[i] < 253 THEN [value |-> b[i], size |-> 1]
    ELSE IF b[i] = 253 THEN [value |-> b[i + 1] + 256 * b[i + 2], size |-> 3]
    ELSE [value |-> b[i + 1] + 256 * b[i + 2] + 65536 * b[i + 3] + 16777216 * b[i + 4],
          size |-> 5]

RECURSIVE ReadSlices(_, _, _)
ReadSlices(b, i, count) ==
    IF count = 0 THEN <<>>
    ELSE LET n == ReadVarInt(b, i)
         IN  <<SubSeq(b, i + n.size, i + n.size + n.value - 1)>>
             \o ReadSlices(b, i + n.size + n.value, count - 1)

\* bitcoinjs-lib scriptWitnessToWitnessStack, which extractTransaction applies to
\* the finalScriptWitness
scriptWitnessToWitnessStack(b) ==
    LET n == ReadVarInt(b, 1) IN ReadSlices(b, 1 + n.size, n.value)

(***************************************************************************)
(* Running a function body: its steps in order, up to the first throw      *)
(***************************************************************************)
\* One step of a body: what it is (an input check, cryptographic work, or
\* script/transaction building) and the error it throws on these inputs
Step(name, kind, err) == [name |-> name, kind |-> kind, err |-> err]

LibraryError(site) == Error(site, <<Lit("library"), Lit("error")>>)

NoValue == [none |-> TRUE]

\* The steps executed and the error thrown (NoError when the body completes)
Run(steps) ==
    LET bad == {k \in 1..Len(steps) : steps[k].err.site # "none"}
        n == IF bad = {} THEN Len(steps) ELSE CHOOSE k \in bad : \A j \in bad : k <= j
    IN  [err |-> IF bad = {} THEN NoError ELSE steps[n].err,
         trace |-> [k \in 1..n |-> [name |-> steps[k].name, kind |-> steps[k].kind]]]

\* The steps of first, and those of rest when first completes
RunThen(first, rest) ==
    LET r == Run(first)
    IN  IF r.err.site # "none" THEN r
        ELSE LET q == Run(rest) IN [err |-> q.err, trace |-> r.trace \o q.trace]

Outcome(run, value) ==
    IF run.err.site = "none"
    THEN [status |-> "ok", err |-> NoError, trace |-> run.trace, value |-> value]
    ELSE [status |-> "error", err |-> run.err, trace |-> run.trace, value |-> NoValue]

(***************************************************************************)
(* generateHTLC                                                            *)
(***************************************************************************)
\* The elements compiled into the redeem script
HTLCChunks(secretHashBuf, buyerPubKeyBuf, sellerPubKeyBuf, timeoutBuffer) ==
    <<Op(OP_IF),
      Op(OP_SHA256),
      Data(secretHashBuf),
      Op(OP_EQUALVERIFY),
      Data(buyerPubKeyBuf),
      Op(OP_CHECKSIG),
      Op(OP_ELSE),
      Data(timeoutBuffer),
      Op(OP_CHECKSEQUENCEVERIFY),
      Op(OP_DROP),
      Data(sellerPubKeyBuf),
      Op(OP_CHECKSIG),
      Op(OP_ENDIF)>>

HTLCValue(redeemScript, p) ==
    [asm |-> decompile(redeemScript),
     address |-> p.address,
     redeemScriptHex |-> ToHex(redeemScript),
     redeemScript |-> redeemScript,
     witnessScriptHash |-> p.hash]

\* src/unnamed/part_000, lines 240-309
generateHTLC(secretHash, buyerPubKey, sellerPubKey, timeout, network) ==
    LET sh == toBuffer(secretHash, "secretHash")
        bp == toBuffer(buyerPubKey, "buyerPubKey")
        sp == toBuffer(sellerPubKey, "sellerPubKey")
        timeoutBuffer == encodeScriptNumber(timeout)
        redeemScript == compile(HTLCChunks(sh.buf, bp.buf, sp.buf, timeoutBuffer))
        p == p2wsh(redeemScript, network)
        run == Run(<<
            Step("toBuffer:secretHash", "check", sh.err),
            Step("toBuffer:buyerPubKey", "check", bp.err),
            Step("toBuffer:sellerPubKey", "check", sp.err),
            Step("assertBufferLength:secretHash", "check",
                 assertBufferLength(sh.buf, 32, <<"secret", "hash">>)),
            Step("assertBufferLength:buyerPubKey", "check",
                 assertBufferLength(bp.buf, 33, <<"buyer", "public", "key">>)),
            Step("assertBufferLength:sellerPubKey", "check",
                 assertBufferLength(sp.buf, 33, <<"seller", "public", "key">>)),
            Step("isPoint:buyerPubKey", "check",
                 IF ~isPoint(bp.buf)
                 THEN Error("generateHTLC",
                            Lits(<<"Invalid", "buyer", "public", "key", ":", "not", "a", "valid",
                                   "secp256k1", "point">>))
                 ELSE NoError),
            Step("isPoint:sellerPubKey", "check",
                 IF ~isPoint(sp.buf)
                 THEN Error("generateHTLC",
                            Lits(<<"Invalid", "seller", "public", "key", ":", "not", "a", "valid",
                                   "secp256k1", "point">>))
                 ELSE NoError),
            Step("assertIntegerRange:timeout", "check",
                 assertIntegerRange(timeout, "timeout", 1, MAX_TIMEOUT)),
            Step("encodeScriptNumber", "build", NoError),
            Step("script.compile", "build", NoError),
            Step("payments.p2wsh", "build",
                 IF ~p.ok THEN LibraryError("payments.p2wsh") ELSE NoError) >>)
    IN  Outcome(run, HTLCValue(redeemScript, p))

\* typeof x === 'string' ? Buffer.from(x, 'hex') : x
BufferOf_legacy(input) == IF input.t = "str" THEN BufferFromHex(input.v) ELSE input.v

\* x <= k for an integer k
NumLeq(x, k) == ~NumGt(x, k)

\* src/backend/client/src/btc-htlc.ts, lines 55-132
generateHTLC_legacy(secretHash, buyerPubKey, sellerPubKey, timeout, network) ==
    LET secretHashBuf == BufferOf_legacy(secretHash)
        buyerPubKeyBuf == BufferOf_legacy(buyerPubKey)
        sellerPubKeyBuf == BufferOf_legacy(sellerPubKey)
        timeoutBuffer == encodeScriptNumber(timeout)
        redeemScript ==
            compile(HTLCChunks(secretHashBuf, buyerPubKeyBuf, sellerPubKeyBuf, timeoutBuffer))
        p == p2wsh(redeemScript, network)
        LengthError(words, expected, compressed, got) ==
            Error("generateHTLC",
                  <<Lit("Invalid")>> \o Lits(words)
                  \o <<Lit("length"), Lit(":"), Lit("expected"), Val(expected), Lit("bytes")>>
                  \o (IF compressed THEN <<Lit("(compressed)")>> ELSE <<>>)
                  \o <<Lit(","), Lit("got"), Val(got)>>)
        run == Run(<<
            Step("length:secretHash", "check",
                 IF Len(secretHashBuf) # 32
                 THEN LengthError(<<"secret", "hash">>, 32, FALSE, Len(secretHashBuf))
                 ELSE NoError),
            Step("length:buyerPubKey", "check",
                 IF Len(buyerPubKeyBuf) # 33
                 THEN LengthError(<<"buyer", "public", "key">>, 33, TRUE, Len(buyerPubKeyBuf))
                 ELSE NoError),
            Step("length:sellerPubKey", "check",
                 IF Len(sellerPubKeyBuf) # 33
                 THEN LengthError(<<"seller", "public", "key">>, 33, TRUE, Len(sellerPubKeyBuf))
                 ELSE NoError),
            Step("range:timeout", "check",
                 IF NumLeq(timeout, 0) \/ NumGt(timeout, 16777215)
                 THEN Error("generateHTLC",
                            <<Lit("Invalid"), Lit("timeout"), Lit(":"), Lit("must"), Lit("be"),
                              Lit("between"), Val(1), Lit("and"), Val(16777215), Lit(","),
                              Lit("got"), Val(timeout)>>)
                 ELSE NoError),
            Step("encodeScriptNumber", "build", NoError),
            Step("script.compile", "build", NoError),
            Step("payments.p2wsh", "build",
                 IF ~p.ok THEN LibraryError("payments.p2wsh") ELSE NoError) >>)
    IN  Outcome(run, HTLCValue(redeemScript, p))

(***************************************************************************)
(* Spending transactions                                                   *)
(***************************************************************************)
\* A 32-bit unsigned value as its two 16-bit words
UInt32(n) == [hi |-> n \div 65536, lo |-> n % 65536]

\* Transaction.DEFAULT_SEQUENCE, 0xffffffff
DEFAULT_SEQUENCE == [hi |-> 65535, lo |-> 65535]

\* assertValidAddress(address, network)
assertValidAddress(address, network) ==
    IF ~toOutputScript(address, network).ok
    THEN Error("assertValidAddress",
               Lits(<<"Invalid", "destination", "address", "for", "selected", "network", ":">>)
               \o <<Val(address.text)>>)
    ELSE NoError

\* createKeyPair(privateKey, network): its two steps
createKeyPair(privateKey, network) ==
    <<Step("createKeyPair:assertBufferLength", "check",
           assertBufferLength(privateKey, 32, <<"private", "key">>)),
      Step("createKeyPair:ECPair.fromPrivateKey", "crypto",
           IF ~isPrivate(privateKey)
           THEN Error("createKeyPair", Lits(<<"Invalid", "private", "key">>))
           ELSE NoError)>>

\* bitcoinjs-lib Psbt.signInput refuses a key whose public key is not an
\* element of the witness script
pubkeyInScript(pubkey, script) ==
    LET d == decompile(script)
    IN  \E k \in 1..Len(d) : d[k].k = "data" /\ d[k].v = pubkey

\* The transaction psbt.extractTransaction() returns: the input added by
\* psbt.addInput with the witness stack read back from finalScriptWitness, and
\* the output added by psbt.addOutput
Transaction(prevTxId, prevIndex, sequence, witness, destinationAddress, outputAmount, network) ==
    [version |-> 2,
     locktime |-> 0,
     ins |-> <<[hash |-> Reverse(BufferFromHex(prevTxId)),
                index |-> prevIndex.i,
                sequence |-> sequence,
                script |-> <<>>,
                witness |-> scriptWitnessToWitnessStack(witnessStackToScriptWitness(witness))]>>,
     outs |-> <<[script |-> toOutputScript(destinationAddress, network).script,
                 value |-> outputAmount.i]>>]

\* The redeem stack with the hash of the secret in the secret's place
RedeemWitness_hashedSecret(signature, secretBuf, redeemScriptBuf) ==
    <<signature, Sha256(secretBuf), <<1>>, redeemScriptBuf>>

\* The witness stack of the claim branch: [ <signature>, <secret>, <TRUE>, <redeemScript> ]
RedeemWitness_noSelector(signature, secretBuf, redeemScriptBuf) ==
    <<signature, secretBuf, redeemScriptBuf>>

RedeemWitness(signature, secretBuf, redeemScriptBuf) ==
    <<signature, secretBuf, <<1>>, redeemScriptBuf>>

\* The witness stack of the refund branch: [ <signature>, <FALSE/empty>, <redeemScript> ]
RefundWitness_zeroByte(signature, redeemScriptBuf) ==
    <<signature, <<0>>, redeemScriptBuf>>

RefundWitness(signature, redeemScriptBuf) ==
    <<signature, <<>>, redeemScriptBuf>>

\* sequence: timeout, the input's nSequence
RefundSequence(timeout) == UInt32(timeout.i)

\* The library steps after the input checks: p2wsh, Psbt input, output,
\* signature, finalization, extraction
SpendSteps(prevTxId, prevIndex, sequenceOk, amountSats, privateKey, redeemScript, destinationAddress, outputAmount, network) ==
    <<Step("payments.p2wsh", "build",
           IF ~p2wsh(redeemScript, network).ok
           THEN LibraryError("payments.p2wsh") ELSE NoError),
      Step("psbt.addInput", "build",
           IF Len(BufferFromHex(prevTxId)) # 32 \/ ~IsInteger(prevIndex)
              \/ NumLt(prevIndex, 0) \/ ~sequenceOk
           THEN LibraryError("psbt.addInput") ELSE NoError),
      Step("psbt.addOutput", "build",
           IF ~toOutputScript(destinationAddress, network).ok
              \/ ~IsInteger(outputAmount) \/ NumLt(outputAmount, 0)
           THEN LibraryError("psbt.addOutput") ELSE NoError),
      Step("psbt.signInput", "crypto",
           IF ~isPrivate(privateKey) \/ ~IsInteger(amountSats) \/ NumLt(amountSats, 0)
           THEN LibraryError("psbt.signInput")
           ELSE IF ~pubkeyInScript(PublicKeyOf(privateKey), redeemScript)
           THEN LibraryError("psbt.signInput") ELSE NoError),
      Step("psbt.finalizeInput", "build", NoError),
      \* extraction refuses outputs that spend more than the input
      Step("psbt.extractTransaction", "build",
           IF Halves(amountSats) < Halves(outputAmount)
           THEN LibraryError("psbt.extractTransaction") ELSE NoError)>>

\* src/unnamed/part_000, lines 341-435
createRedeemTx(prevTxId, prevIndex, amountSats, privateKey, secret, redeemScript, destinationAddress, feeSats, network) ==
    LET pk == toBuffer(privateKey, "privateKey")
        sc == toBuffer(secret, "secret")
        rs == toBuffer(redeemScript, "redeemScript")
        outputAmount == NumSub(amountSats, feeSats)
        witness == RedeemWitness(Signature(pk.buf), sc.buf, rs.buf)
        run == RunThen(
            <<Step("toBuffer:privateKey", "check", pk.err),
              Step("toBuffer:secret", "check", sc.err),
              Step("toBuffer:redeemScript", "check", rs.err)>>
            \o createKeyPair(pk.buf, network)
            \o <<Step("assertBufferLength:secret", "check",
                      assertBufferLength(sc.buf, 32, <<"secret">>)),
                 Step("redeemScript.length", "check",
                      IF Len(rs.buf) = 0
                      THEN Error("createRedeemTx", Lits(<<"redeemScript", "cannot", "be", "empty">>))
                      ELSE NoError),
                 Step("assertValidTxInput", "check",
                      assertValidTxInput(prevTxId, prevIndex, amountSats, feeSats)),
                 Step("assertValidAddress", "check",
                      assertValidAddress(destinationAddress, network))>>,
            SpendSteps(prevTxId, prevIndex, TRUE, amountSats, pk.buf, rs.buf,
                          destinationAddress, outputAmount, network))
    IN  Outcome(run, [tx |-> Transaction(prevTxId, prevIndex, DEFAULT_SEQUENCE, witness,
                                         destinationAddress, outputAmount, network)])

\* src/unnamed/part_000, lines 455-544
createRefundTx(prevTxId, prevIndex, amountSats, privateKey, redeemScript, destinationAddress, timeout, feeSats, network) ==
    LET pk == toBuffer(privateKey, "privateKey")
        rs == toBuffer(redeemScript, "redeemScript")
        outputAmount == NumSub(amountSats, feeSats)
        witness == RefundWitness(Signature(pk.buf), rs.buf)
        run == RunThen(
            <<Step("toBuffer:privateKey", "check", pk.err),
              Step("toBuffer:redeemScript", "check", rs.err)>>
            \o createKeyPair(pk.buf, network)
            \o <<Step("redeemScript.length", "check",
                      IF Len(rs.buf) = 0
                      THEN Error("createRefundTx", Lits(<<"redeemScript", "cannot", "be", "empty">>))
                      ELSE NoError),
                 Step("assertIntegerRange:timeout", "check",
                      assertIntegerRange(timeout, "timeout", 1, MAX_TIMEOUT)),
                 Step("assertValidTxInput", "check",
                      assertValidTxInput(prevTxId, prevIndex, amountSats, feeSats)),
                 Step("assertValidAddress", "check",
                      assertValidAddress(destinationAddress, network))>>,
            SpendSteps(prevTxId, prevIndex, TRUE, amountSats, pk.buf, rs.buf,
                          destinationAddress, outputAmount, network))
    IN  Outcome(run, [tx |-> Transaction(prevTxId, prevIndex, RefundSequence(timeout), witness,
                                         destinationAddress, outputAmount, network)])

\* new Error(`Output amount must be positive: ${amountSats} - ${feeSats} = ${outputAmount}`)
OutputAmountError_legacy(site, amountSats, feeSats, outputAmount) ==
    Error(site,
          <<Lit("Output"), Lit("amount"), Lit("must"), Lit("be"), Lit("positive"), Lit(":"),
            Val(amountSats), Lit("-"), Val(feeSats), Lit("="), Val(outputAmount)>>)

\* ECPair.fromPrivateKey(privateKeyBuf, { network }), called directly
fromPrivateKey_legacy(privateKeyBuf) ==
    Step("ECPair.fromPrivateKey", "crypto",
         IF ~isPrivate(privateKeyBuf) THEN LibraryError("ECPair.fromPrivateKey") ELSE NoError)

\* src/backend/client/src/btc-htlc.ts, lines 164-261
createRedeemTx_legacy(prevTxId, prevIndex, amountSats, privateKey, secret, redeemScript, destinationAddress, feeSats, network) ==
    LET privateKeyBuf == BufferOf_legacy(privateKey)
        secretBuf == BufferOf_legacy(secret)
        redeemScriptBuf == BufferOf_legacy(redeemScript)
        outputAmount == NumSub(amountSats, feeSats)
        witness == RedeemWitness(Signature(privateKeyBuf), secretBuf, redeemScriptBuf)
        run == RunThen(
            <<fromPrivateKey_legacy(privateKeyBuf),
              Step("length:secret", "check",
                   IF Len(secretBuf) # 32
                   THEN Error("createRedeemTx",
                              <<Lit("Invalid"), Lit("secret"), Lit("length"), Lit(":"),
                                Lit("expected"), Val(32), Lit("bytes"), Lit(","), Lit("got"),
                                Val(Len(secretBuf))>>)
                   ELSE NoError),
              Step("outputAmount", "check",
                   IF NumLeq(outputAmount, 0)
                   THEN OutputAmountError_legacy("createRedeemTx", amountSats, feeSats, outputAmount)
                   ELSE NoError)>>,
            SpendSteps(prevTxId, prevIndex, TRUE, amountSats, privateKeyBuf, redeemScriptBuf,
                          destinationAddress, outputAmount, network))
    IN  Outcome(run, [tx |-> Transaction(prevTxId, prevIndex, DEFAULT_SEQUENCE, witness,
                                         destinationAddress, outputAmount, network)])

\* src/backend/client/src/btc-htlc.ts, lines 281-368
createRefundTx_legacy(prevTxId, prevIndex, amountSats, privateKey, redeemScript, destinationAddress, timeout, feeSats, network) ==
    LET privateKeyBuf == BufferOf_legacy(privateKey)
        redeemScriptBuf == BufferOf_legacy(redeemScript)
        outputAmount == NumSub(amountSats, feeSats)
        witness == RefundWitness(Signature(privateKeyBuf), redeemScriptBuf)
        \* the library takes a sequence that is an unsigned 32-bit integer
        sequenceOk == IsInteger(timeout) /\ ~NumLt(timeout, 0)
        run == RunThen(
            <<fromPrivateKey_legacy(privateKeyBuf),
              Step("outputAmount", "check",
                   IF NumLeq(outputAmount, 0)
                   THEN OutputAmountError_legacy("createRefundTx", amountSats, feeSats, outputAmount)
                   ELSE NoError)>>,
            SpendSteps(prevTxId, prevIndex, sequenceOk, amountSats, privateKeyBuf,
                          redeemScriptBuf, destinationAddress, outputAmount, network))
    IN  Outcome(run, [tx |-> Transaction(prevTxId, prevIndex, RefundSequence(timeout), witness,
                                         destinationAddress, outputAmount, network)])

(***************************************************************************)
(* Calls: the test fixture's calls and their variations                    *)
(***************************************************************************)
\* How many arguments of a call differ from the fixture's
MaxChanged == 2

BUYER_PRIVATE_KEY == Rep(17, 32)

SELLER_PRIVATE_KEY == Rep(34, 32)

MOCK_TXID == Rep("a", 64)

FixtureSecret == Rep(7, 32)

Hash160(b) == SubSeq(Sha256(b), 1, 20)

\* bitcoin.payments.p2wpkh({ pubkey, network }).address
P2wpkhAddress(text, pubkey, network) == Address(text, network.bech32, Hash160(pubkey))

BuyerDestination == P2wpkhAddress("buyerDestination", PublicKeyOf(BUYER_PRIVATE_KEY), TESTNET)

SellerDestination == P2wpkhAddress("sellerDestination", PublicKeyOf(SELLER_PRIVATE_KEY), TESTNET)

MainnetDestination == P2wpkhAddress("mainnetDestination", PublicKeyOf(BUYER_PRIVATE_KEY), MAINNET)

NotAnAddress == Address("not-an-address", "", <<>>)

\* createFixture(): the arguments of its generateHTLC call
FixtureHTLCArgs ==
    [secretHash |-> Buf(Sha256(FixtureSecret)),
     buyerPubKey |-> Buf(PublicKeyOf(BUYER_PRIVATE_KEY)),
     sellerPubKey |-> Buf(PublicKeyOf(SELLER_PRIVATE_KEY)),
     timeout |-> Num(144),
     network |-> TESTNET]

ScriptFor(timeout) ==
    generateHTLC(FixtureHTLCArgs.secretHash, FixtureHTLCArgs.buyerPubKey,
                 FixtureHTLCArgs.sellerPubKey, Num(timeout), TESTNET).value.redeemScript

FixtureScript == ScriptFor(144)

\* The arguments of the tests' createRedeemTx and createRefundTx calls
FixtureRedeemArgs ==
    [prevTxId |-> MOCK_TXID,
     prevIndex |-> Num(0),
     amountSats |-> Num(100000),
     privateKey |-> Buf(BUYER_PRIVATE_KEY),
     secret |-> Buf(FixtureSecret),
     redeemScript |-> Buf(FixtureScript),
     destinationAddress |-> BuyerDestination,
     feeSats |-> Num(500),
     network |-> TESTNET]

FixtureRefundArgs ==
    [prevTxId |-> MOCK_TXID,
     prevIndex |-> Num(0),
     amountSats |-> Num(100000),
     privateKey |-> Buf(SELLER_PRIVATE_KEY),
     redeemScript |-> Buf(FixtureScript),
     destinationAddress |-> SellerDestination,
     timeout |-> Num(144),
     feeSats |-> Num(500),
     network |-> TESTNET]

\* The other values each argument takes
Timeouts ==
    {Num(0), Num(0 - 1), Num(1), Num(10), Num(16), Num(17), Num(127), Num(128), Num(255),
     Num(256), Num(65535), Num(65536), Num(MAX_TIMEOUT), Num(MAX_TIMEOUT + 1),
     Half(0), Half(1), Half(144)}

RefundTimeouts == {Num(0), Num(10), Num(MAX_TIMEOUT), Num(MAX_TIMEOUT + 1), Half(144)}

Keys ==
    {Buf(BUYER_PRIVATE_KEY), Buf(SELLER_PRIVATE_KEY), Str(ToHex(BUYER_PRIVATE_KEY)),
     Buf(Rep(0, 32)), Buf(Rep(255, 32)), Buf(Rep(17, 31)), Str(<<"x", "y">>),
     Buf(Rep(51, 32))}

Scripts ==
    {Buf(FixtureScript), Str(ToHex(FixtureScript)), Buf(ScriptFor(10)), Buf(<<>>),
     Str(<<"6", "3", "6">>)}

TxIds == {MOCK_TXID, Rep("A", 64), <<"1", "2", "3", "4">>, Rep("a", 63) \o <<"z">>, Rep("a", 64) \o <<"z">>, Rep("a", 66)}

Indexes == {Num(0), Num(1), Num(0 - 1), Half(0)}

Amounts == {Num(100000), Num(300), Num(500), Num(0), Half(100000)}

Fees == {Num(500), Num(0), Num(0 - 1), Num(100000), Half(500)}

Addresses == {BuyerDestination, SellerDestination, MainnetDestination, NotAnAddress}

Networks == {TESTNET, MAINNET}

HTLCAlternatives ==
    [secretHash |-> {Str(ToHex(Sha256(FixtureSecret))), Buf(Rep(9, 32)), Buf(Rep(9, 31)),
                     Str(<<"a", "b", "c">>), Str(<<>>)},
     buyerPubKey |-> {Str(ToHex(PublicKeyOf(BUYER_PRIVATE_KEY))),
                      Buf(PublicKeyOf(SELLER_PRIVATE_KEY)), Buf(<<5>> \o Rep(0, 32)),
                      Buf(Rep(2, 32)), Str(<<"z", "z">>)},
     sellerPubKey |-> {Str(ToHex(PublicKeyOf(SELLER_PRIVATE_KEY))),
                       Buf(PublicKeyOf(BUYER_PRIVATE_KEY)), Buf(<<5>> \o Rep(0, 32)),
                       Buf(Rep(2, 34)), Str(<<>>)},
     timeout |-> Timeouts,
     network |-> Networks]

RedeemAlternatives ==
    [prevTxId |-> TxIds,
     prevIndex |-> Indexes,
     amountSats |-> Amounts,
     privateKey |-> Keys,
     secret |-> {Str(ToHex(FixtureSecret)), Buf(Rep(9, 32)), Buf(Rep(1, 31)), Buf(<<>>),
                 Str(<<>>), Str(<<"0", "7", "0">>)},
     redeemScript |-> Scripts,
     destinationAddress |-> Addresses,
     feeSats |-> Fees,
     network |-> Networks]

RefundAlternatives ==
    [prevTxId |-> TxIds,
     prevIndex |-> Indexes,
     amountSats |-> Amounts,
     privateKey |-> Keys,
     redeemScript |-> Scripts,
     destinationAddress |-> Addresses,
     timeout |-> RefundTimeouts,
     feeSats |-> Fees,
     network |-> Networks]

RECURSIVE Variations(_, _, _, _)
\* The argument records that differ from base in at most budget of the fields
Variations(base, alternatives, fields, budget) ==
    IF fields = <<>> THEN {base}
    ELSE LET f == Head(fields)
             same == Variations(base, alternatives, Tail(fields), budget)
         IN  IF budget = 0 THEN same
             ELSE same \cup
                  {[r EXCEPT ![f] = a] :
                      r \in Variations(base, alternatives, Tail(fields), budget - 1),
                      a \in alternatives[f] \ {base[f]}}

HTLCFields == <<"secretHash", "buyerPubKey", "sellerPubKey", "timeout", "network">>

RedeemFields ==
    <<"prevTxId", "prevIndex", "amountSats", "privateKey", "secret", "redeemScript",
      "destinationAddress", "feeSats", "network">>

RefundFields ==
    <<"prevTxId", "prevIndex", "amountSats", "privateKey", "redeemScript",
      "destinationAddress", "timeout", "feeSats", "network">>

\* The two copies of the module a caller can import
Modules == {"part_000", "btc-htlc.ts"}

Calls ==
    {[module |-> m, op |-> "generateHTLC", args |-> a] :
        m \in Modules, a \in Variations(FixtureHTLCArgs, HTLCAlternatives, HTLCFields, MaxChanged)}
    \cup
    {[module |-> m, op |-> "createRedeemTx", args |-> a] :
        m \in Modules,
        a \in Variations(FixtureRedeemArgs, RedeemAlternatives, RedeemFields, MaxChanged)}
    \cup
    {[module |-> m, op |-> "createRefundTx", args |-> a] :
        m \in Modules,
        a \in Variations(FixtureRefundArgs, RefundAlternatives, RefundFields, MaxChanged)}
    \cup
    {[module |-> m, op |-> "generateSecret", args |-> NoValue] : m \in Modules}

(***************************************************************************)
(* The funding script: src/scripts/test_bitcoin_real.ts, lines 47-69.  It  *)
(* builds the contract with bitcoinjs-lib's own script-number encoder and  *)
(* saves the script's hex in the record that the spends are later built    *)
(* from.                                                                   *)
(***************************************************************************)
\* bitcoinjs-lib script.number scriptNumSize(i), for i below 2^31
scriptNumSize(i) ==
    IF i > 8388607 THEN 4
    ELSE IF i > 32767 THEN 3
    ELSE IF i > 127 THEN 2
    ELSE IF i > 0 THEN 1
    ELSE 0

\* The library's encoder with the size of the magnitude alone
script_number_encode_unsigned(n) ==
    LET value == IF n < 0 THEN 0 - n ELSE n
        size == IF value > 16777215 THEN 4 ELSE IF value > 65535 THEN 3
                ELSE IF value > 255 THEN 2 ELSE IF value > 0 THEN 1 ELSE 0
    IN  [k \in 1..size |-> (value \div (256 ^ (k - 1))) % 256]

\* bitcoin.script.number.encode(n) for an integer n: size bytes of the
\* magnitude, least significant first, then the sign in the top bit of the
\* last byte (which the size has kept clear)
script_number_encode(n) ==
    LET value == IF n < 0 THEN 0 - n ELSE n
        size == scriptNumSize(value)
        buffer == [k \in 1..size |-> (value \div (256 ^ (k - 1))) % 256]
    IN  IF size = 0 THEN buffer
        ELSE IF buffer[size] >= 128
        THEN [buffer EXCEPT ![size] = IF n < 0 THEN 128 ELSE 0]
        ELSE IF n < 0 THEN [buffer EXCEPT ![size] = buffer[size] + 128]
        ELSE buffer

\* lockingScript of main(), lines 55-69, for the record's hash, keys (bob the
\* buyer, alice the seller) and timeout
lockingScript(secretHash, bobPublicKey, alicePublicKey, timeout) ==
    compile(<<Op(OP_IF),
              Op(OP_SHA256),
              Data(secretHash),
              Op(OP_EQUALVERIFY),
              Data(bobPublicKey),
              Op(OP_CHECKSIG),
              Op(OP_ELSE),
              Data(script_number_encode(timeout)),
              Op(OP_CHECKSEQUENCEVERIFY),
              Op(OP_DROP),
              Data(alicePublicKey),
              Op(OP_CHECKSIG),
              Op(OP_ENDIF)>>)

(***************************************************************************)
(* What the network does with the script that generateHTLC compiles        *)
(* (src/unnamed/part_000, lines 273-287) when an input spends its P2WSH    *)
(* output: the witness's last item must hash to the output's program, and  *)
(* the script runs on the items before it.  Only the opcodes of the        *)
(* contract are interpreted; signatures are uninterpreted, as is the curve.*)
(***************************************************************************)
\* The interpreter's CastToBool: some byte is set, negative zero aside
CastToBool(b) ==
    \E k \in 1..Len(b) : b[k] # 0 /\ ~(k = Len(b) /\ b[k] = 128)

RECURSIVE Magnitude(_)
Magnitude(b) == IF b = <<>> THEN 0 ELSE Head(b) + 256 * Magnitude(Tail(b))

\* The number a script number of up to 4 bytes stands for
ScriptNumValue(b) ==
    IF b = <<>> THEN 0
    ELSE IF b[Len(b)] >= 128
    THEN 0 - Magnitude([b EXCEPT ![Len(b)] = b[Len(b)] - 128])
    ELSE Magnitude(b)

\* OP_CHECKSIG: sig is the signature of the key whose public key is pubkey
VerifiesUnder(sig, pubkey) ==
    Len(pubkey) = 33 /\ sig = <<48>> \o SubSeq(pubkey, 2, 5) \o <<1>>

\* OP_CHECKSEQUENCEVERIFY that compares whole values
CheckSequence_wholeValue(n, version, sequence) ==
    n >= 0 /\ version >= 2 /\ sequence.hi < 32768
    /\ n <= sequence.hi * 65536 + sequence.lo

\* OP_CHECKSEQUENCEVERIFY (BIP 112) with the operand n on an input of a
\* transaction of this version with this nSequence: bit 31 disables, bit 22
\* tells blocks from time, and the low 16 bits are the lock that is compared
CheckSequence(n, version, sequence) ==
    /\ n >= 0
    /\ version >= 2
    /\ sequence.hi < 32768
    /\ ((n \div 4194304) % 2) = ((sequence.hi \div 64) % 2)
    /\ n % 65536 <= sequence.lo

\* The state of a run: the stack (top last), the open conditionals (innermost
\* last), whether the run has failed, and the branch an OP_IF chose
RunStart(stack) == [stack |-> stack, conds |-> <<>>, failed |-> FALSE, branch |-> "none"]

\* One chunk of the script on the state st of the input with this version
\* and nSequence
EvalChunk(c, st, version, sequence) ==
    LET n == Len(st.stack)
        top == st.stack[n]
        executing == \A k \in 1..Len(st.conds) : st.conds[k]
        fail == [st EXCEPT !.failed = TRUE]
        pop(count) == SubSeq(st.stack, 1, n - count)
    IN  IF c.k = "null" THEN fail
        ELSE IF c.k = "op" /\ c.v = OP_IF
        THEN IF ~executing THEN [st EXCEPT !.conds = Append(@, FALSE)]
             ELSE IF n < 1 THEN fail
             ELSE [st EXCEPT !.stack = pop(1),
                             !.conds = Append(@, CastToBool(top)),
                             !.branch = IF CastToBool(top) THEN "if" ELSE "else"]
        ELSE IF c.k = "op" /\ c.v = OP_ELSE
        THEN IF st.conds = <<>> THEN fail
             ELSE [st EXCEPT !.conds[Len(st.conds)] = ~@]
        ELSE IF c.k = "op" /\ c.v = OP_ENDIF
        THEN IF st.conds = <<>> THEN fail
             ELSE [st EXCEPT !.conds = SubSeq(@, 1, Len(@) - 1)]
        ELSE IF ~executing THEN st
        ELSE IF c.k = "data" THEN [st EXCEPT !.stack = Append(@, c.v)]
        ELSE IF c.v = OP_0 THEN [st EXCEPT !.stack = Append(@, <<>>)]
        ELSE IF c.v > OP_RESERVED /\ c.v <= OP_RESERVED + 16
        THEN [st EXCEPT !.stack = Append(@, <<c.v - OP_RESERVED>>)]
        ELSE IF c.v = OP_SHA256
        THEN IF n < 1 THEN fail ELSE [st EXCEPT !.stack = Append(pop(1), Sha256(top))]
        ELSE IF c.v = OP_EQUALVERIFY
        THEN IF n < 2 \/ top # st.stack[n - 1] THEN fail ELSE [st EXCEPT !.stack = pop(2)]
        ELSE IF c.v = OP_CHECKSIG
        THEN IF n < 2 THEN fail
             ELSE [st EXCEPT !.stack =
                      Append(pop(2),
                             IF VerifiesUnder(st.stack[n - 1], top) THEN <<1>> ELSE <<>>)]
        ELSE IF c.v = OP_CHECKSEQUENCEVERIFY
        THEN IF n < 1 \/ Len(top) > 4 \/ ~CheckSequence(ScriptNumValue(top), version, sequence)
             THEN fail ELSE st
        ELSE IF c.v = OP_DROP
        THEN IF n < 1 THEN fail ELSE [st EXCEPT !.stack = pop(1)]
        ELSE fail

RECURSIVE EvalScript(_, _, _, _, _)
\* The chunks from k on
EvalScript(chunks, k, st, version, sequence) ==
    IF st.failed \/ k > Len(chunks) THEN st
    ELSE EvalScript(chunks, k + 1, EvalChunk(chunks[k], st, version, sequence), version,
                    sequence)

\* The spend of a P2WSH output with this program by an input with this
\* witness: [ok, branch]
VerifyInput(program, witness, version, sequence) ==
    IF witness = <<>> \/ Sha256(witness[Len(witness)]) # program
    THEN [ok |-> FALSE, branch |-> "none"]
    ELSE LET st == EvalScript(decompile(witness[Len(witness)]), 1,
                              RunStart(SubSeq(witness, 1, Len(witness) - 1)), version,
                              sequence)
         IN  [ok |-> /\ ~st.failed
                     /\ st.conds = <<>>
                     /\ Len(st.stack) = 1
                     /\ CastToBool(st.stack[1]),
              branch |-> st.branch]

(***************************************************************************)
(* The DarkPool contract (src/backend/contracts/src/DarkPool.cairo).       *)
(* A u128 is its 16 bytes, most significant first, and a u256 is           *)
(* [high, low].  The world a transaction runs in is                        *)
(*   [orders, order_count, balances, frozen, events]:                      *)
(* the contract's storage, the ledgers of the ERC20 tokens it calls        *)
(* (balances[token][account]; a token in frozen refuses transfers), and    *)
(* the events emitted.  A transaction that panics is reverted by Starknet: *)
(* none of its writes, transfers or events remain.                         *)
(***************************************************************************)
TIMEOUT_BLOCKS == 1800

ZERO_ADDRESS == "0x0"

DARKPOOL == "darkpool"

U256(bytes) == [high |-> SubSeq(bytes, 1, 16), low |-> SubSeq(bytes, 17, 32)]

\* The 32 bytes of a u256, most significant first
U256Bytes(value) == value.high \o value.low

\* (x / 2^(32 * (3 - k))) & 0xFFFFFFFF of a u128, k = 0..3, as a u32 (4 bytes)
Word(x, k) == SubSeq(x, 4 * k + 1, 4 * k + 4)

\* core::sha256::compute_sha256_u32_array on whole words: the digest's 8 words
compute_sha256_u32_array(input) ==
    LET digest == Sha256(input[1] \o input[2] \o input[3] \o input[4]
                         \o input[5] \o input[6] \o input[7] \o input[8])
    IN  [k \in 1..8 |-> SubSeq(digest, 4 * k - 3, 4 * k)]

compute_sha256_from_u256(value) ==
    LET input == <<Word(value.high, 0), Word(value.high, 1), Word(value.high, 2),
                   Word(value.high, 3), Word(value.low, 0), Word(value.low, 1),
                   Word(value.low, 2), Word(value.low, 3)>>
        h == compute_sha256_u32_array(input)
    IN  [high |-> h[1] \o h[2] \o h[3] \o h[4], low |-> h[5] \o h[6] \o h[7] \o h[8]]

\* What a storage slot never written reads as
NoOrder ==
    [amount |-> 0, token |-> ZERO_ADDRESS, secret_hash |-> U256(Rep(0, 32)),
     seller |-> ZERO_ADDRESS, buyer |-> ZERO_ADDRESS, is_active |-> FALSE, created_at |-> 0]

\* self.orders.read(order_id)
ReadOrder(world, order_id) ==
    IF order_id \in DOMAIN world.orders THEN world.orders[order_id] ELSE NoOrder

\* self.orders.write(order_id, order)
WriteOrder(world, order_id, order) ==
    [world EXCEPT !.orders =
        [k \in DOMAIN world.orders \cup {order_id} |->
            IF k = order_id THEN order ELSE world.orders[k]]]

\* token.transfer_from(sender, recipient, amount) and token.transfer(recipient,
\* amount) called by sender: [success, world]
Transfer(world, token, sender, recipient, amount) ==
    IF token \in world.frozen \/ world.balances[token][sender] < amount
    THEN [success |-> FALSE, world |-> world]
    ELSE [success |-> TRUE,
          world |-> [world EXCEPT !.balances[token] =
                        [a \in DOMAIN @ |->
                            @[a] - (IF a = sender THEN amount ELSE 0)
                                 + (IF a = recipient THEN amount ELSE 0)]]]

\* A panic with this message: the world the transaction began in remains.
\* value is what the function returns, as a tuple: <<>> of a function that
\* returns nothing
Panic(world, message) == [ok |-> FALSE, error |-> message, value |-> <<>>, world |-> world]

Completed(world, value) == [ok |-> TRUE, error |-> "", value |-> value, world |-> world]

\* create_order that leaves order_count as it was
create_order_countKept(world, caller, block_number, amount, token_address, secret_hash, buyer) ==
    IF ~(amount > 0) THEN Panic(world, "Amount must be greater than 0")
    ELSE IF token_address = ZERO_ADDRESS THEN Panic(world, "Invalid zero address")
    ELSE IF buyer = ZERO_ADDRESS THEN Panic(world, "Invalid buyer address")
    ELSE LET paid == Transfer(world, token_address, caller, DARKPOOL, amount)
         IN  IF ~paid.success THEN Panic(world, "Token transfer failed")
             ELSE LET order_id == paid.world.order_count
                      order == [amount |-> amount, token |-> token_address,
                                secret_hash |-> secret_hash, seller |-> caller,
                                buyer |-> buyer, is_active |-> TRUE,
                                created_at |-> block_number]
                      stored == [WriteOrder(paid.world, order_id, order)
                                    EXCEPT !.order_count = order_id]
                  IN  Completed([stored EXCEPT !.events =
                                    Append(@, [event |-> "OrderCreated", order_id |-> order_id,
                                               seller |-> caller, buyer |-> buyer,
                                               amount |-> amount, token |-> token_address,
                                               secret_hash |-> secret_hash])],
                                <<order_id>>)

create_order(world, caller, block_number, amount, token_address, secret_hash, buyer) ==
    IF ~(amount > 0) THEN Panic(world, "Amount must be greater than 0")
    ELSE IF token_address = ZERO_ADDRESS THEN Panic(world, "Invalid zero address")
    ELSE IF buyer = ZERO_ADDRESS THEN Panic(world, "Invalid buyer address")
    ELSE LET paid == Transfer(world, token_address, caller, DARKPOOL, amount)
         IN  IF ~paid.success THEN Panic(world, "Token transfer failed")
             ELSE LET order_id == paid.world.order_count
                      order == [amount |-> amount, token |-> token_address,
                                secret_hash |-> secret_hash, seller |-> caller,
                                buyer |-> buyer, is_active |-> TRUE,
                                created_at |-> block_number]
                      stored == [WriteOrder(paid.world, order_id, order)
                                    EXCEPT !.order_count = order_id + 1]
                  IN  Completed([stored EXCEPT !.events =
                                    Append(@, [event |-> "OrderCreated", order_id |-> order_id,
                                               seller |-> caller, buyer |-> buyer,
                                               amount |-> amount, token |-> token_address,
                                               secret_hash |-> secret_hash])],
                                <<order_id>>)

\* claim_order without its check of is_active
claim_order_unchecked(world, order_id, secret) ==
    LET order == ReadOrder(world, order_id)
    IN  IF compute_sha256_from_u256(secret) # order.secret_hash
        THEN Panic(world, "Invalid secret provided")
        ELSE LET updated == WriteOrder(world, order_id, [order EXCEPT !.is_active = FALSE])
                 paid == Transfer(updated, order.token, DARKPOOL, order.seller, order.amount)
             IN  IF ~paid.success THEN Panic(world, "Token transfer failed")
                 ELSE Completed([paid.world EXCEPT !.events =
                                    Append(@, [event |-> "SecretRevealed", order_id |-> order_id,
                                               seller |-> order.seller, secret |-> secret,
                                               amount |-> order.amount])],
                                <<>>)

\* claim_order whose event carries the order's hash
claim_order_hashRevealed(world, order_id, secret) ==
    LET order == ReadOrder(world, order_id)
    IN  IF ~order.is_active THEN Panic(world, "Order is not active")
        ELSE IF compute_sha256_from_u256(secret) # order.secret_hash
        THEN Panic(world, "Invalid secret provided")
        ELSE LET updated == WriteOrder(world, order_id, [order EXCEPT !.is_active = FALSE])
                 paid == Transfer(updated, order.token, DARKPOOL, order.seller, order.amount)
             IN  IF ~paid.success THEN Panic(world, "Token transfer failed")
                 ELSE Completed([paid.world EXCEPT !.events =
                                    Append(@, [event |-> "SecretRevealed", order_id |-> order_id,
                                               seller |-> order.seller, secret |-> order.secret_hash,
                                               amount |-> order.amount])],
                                <<>>)

claim_order(world, order_id, secret) ==
    LET order == ReadOrder(world, order_id)
    IN  IF ~order.is_active THEN Panic(world, "Order is not active")
        ELSE IF compute_sha256_from_u256(secret) # order.secret_hash
        THEN Panic(world, "Invalid secret provided")
        ELSE LET updated == WriteOrder(world, order_id, [order EXCEPT !.is_active = FALSE])
                 paid == Transfer(updated, order.token, DARKPOOL, order.seller, order.amount)
             IN  IF ~paid.success THEN Panic(world, "Token transfer failed")
                 ELSE Completed([paid.world EXCEPT !.events =
                                    Append(@, [event |-> "SecretRevealed", order_id |-> order_id,
                                               seller |-> order.seller, secret |-> secret,
                                               amount |-> order.amount])],
                                <<>>)

\* cancel_order that waits for no timeout
cancel_order_anytime(world, caller, block_number, order_id) ==
    LET order == ReadOrder(world, order_id)
    IN  IF ~order.is_active THEN Panic(world, "Order is not active")
        ELSE IF caller # order.seller THEN Panic(world, "Only seller can cancel")
        ELSE LET updated == WriteOrder(world, order_id, [order EXCEPT !.is_active = FALSE])
                 paid == Transfer(updated, order.token, DARKPOOL, order.seller, order.amount)
             IN  IF ~paid.success THEN Panic(world, "Token transfer failed")
                 ELSE Completed([paid.world EXCEPT !.events =
                                    Append(@, [event |-> "OrderCancelled", order_id |-> order_id,
                                               seller |-> order.seller,
                                               amount |-> order.amount])],
                                <<>>)

\* cancel_order that leaves the order active
cancel_order_staysActive(world, caller, block_number, order_id) ==
    LET order == ReadOrder(world, order_id)
        elapsed == block_number - order.created_at
    IN  IF ~order.is_active THEN Panic(world, "Order is not active")
        ELSE IF caller # order.seller THEN Panic(world, "Only seller can cancel")
        ELSE IF ~(elapsed >= TIMEOUT_BLOCKS) THEN Panic(world, "Timeout not reached")
        ELSE LET updated == world
                 paid == Transfer(updated, order.token, DARKPOOL, order.seller, order.amount)
             IN  IF ~paid.success THEN Panic(world, "Token transfer failed")
                 ELSE Completed([paid.world EXCEPT !.events =
                                    Append(@, [event |-> "OrderCancelled", order_id |-> order_id,
                                               seller |-> order.seller,
                                               amount |-> order.amount])],
                                <<>>)

cancel_order(world, caller, block_number, order_id) ==
    LET order == ReadOrder(world, order_id)
        elapsed == block_number - order.created_at
    IN  IF ~order.is_active THEN Panic(world, "Order is not active")
        ELSE IF caller # order.seller THEN Panic(world, "Only seller can cancel")
        ELSE IF ~(elapsed >= TIMEOUT_BLOCKS) THEN Panic(world, "Timeout not reached")
        ELSE LET updated == WriteOrder(world, order_id, [order EXCEPT !.is_active = FALSE])
                 paid == Transfer(updated, order.token, DARKPOOL, order.seller, order.amount)
             IN  IF ~paid.success THEN Panic(world, "Token transfer failed")
                 ELSE Completed([paid.world EXCEPT !.events =
                                    Append(@, [event |-> "OrderCancelled", order_id |-> order_id,
                                               seller |-> order.seller,
                                               amount |-> order.amount])],
                                <<>>)

get_order(world, order_id) == ReadOrder(world, order_id)

get_order_count(world) == world.order_count

\* The chain the contract is deployed on: the world, the current block, how
\* often the block has advanced, and the receipt of the last transaction
USDC == "usdc"

ALICE == "alice"

BOB == "bob"

CAROL == "carol"

NoReceipt == [op |-> "constructor", ok |-> TRUE, error |-> "", order_id |-> 0, value |-> <<>>]

\* After the constructor: no order, and Alice holding the tokens there are
DarkPoolDeployed ==
    [world |-> [orders |-> <<>>,
                order_count |-> 0,
                balances |-> [t \in {USDC} |->
                                [a \in {ALICE, CAROL, DARKPOOL} |->
                                    IF a = ALICE THEN 2 ELSE 0]],
                frozen |-> {},
                events |-> <<>>],
     block |-> 0,
     advances |-> 0,
     tx |-> NoReceipt]

(***************************************************************************)
(* The frontend's Home component (src/unnamed/part_003): its React state   *)
(* as last rendered, and the handleSwap calls that are waiting on their    *)
(* timers, each with the value of i it will write next.  Every timer is    *)
(* set for 800 ms, so the timers fire in the order they were set: loops is *)
(* that queue.                                                             *)
(***************************************************************************)
HomeMounted == [activeTab |-> "swap", isSwapping |-> FALSE, demoStep |-> 0, loops |-> <<>>]

\* handleSwap up to its first await: the button shows the swap in progress
\* and the loop waits for its timer with i = 0
handleSwap(home) == [home EXCEPT !.isSwapping = TRUE, !.loops = Append(@, 0)]

\* handleSwap resumed by the timer it awaited first: setDemoStep(i), and then
\* the next timer, or after i = 6 the end of the loop and setIsSwapping(false)
handleSwapResumed(home) ==
    LET i == Head(home.loops)
    IN  IF i + 1 <= 6
        THEN [home EXCEPT !.demoStep = i, !.loops = Append(Tail(@), i + 1)]
        ELSE [home EXCEPT !.demoStep = i, !.loops = Tail(@), !.isSwapping = FALSE]

handleReset(home) == [home EXCEPT !.demoStep = 0, !.isSwapping = FALSE]

(***************************************************************************)
(* Secrets: sha256 and generateSecret                                      *)
(***************************************************************************)
MaxRandom == 3

\* crypto.randomBytes(size), and Buffer.from of size values of
\* Math.floor(Math.random() * 256): any size bytes; here a few of them
randomBytes(size) == {[k \in 1..size |-> (r * k) % 256] : r \in 0..MaxRandom}

\* sha256(preimage) of src/unnamed/part_000, lines 627-630: [err, buf]
sha256(preimage) ==
    LET data == toBuffer(preimage, "preimage")
    IN  [err |-> data.err, buf |-> IF data.err.site = "none" THEN Sha256(data.buf) ELSE <<>>]

\* sha256(preimage) of src/backend/client/src/btc-htlc.ts, lines 451-454
sha256_legacy(preimage) == Sha256(BufferOf_legacy(preimage))

\* generateSecret hashing the hash of the secret
generateSecret_hashTwice(secret) ==
    [secret |-> secret, secretHash |-> Sha256(Sha256(secret))]

\* generateSecret() of src/unnamed/part_000, lines 635-639, once secret is drawn
generateSecret(secret) ==
    [secret |-> secret, secretHash |-> sha256(Buf(secret)).buf]

\* generateSecret() of src/backend/client/src/btc-htlc.ts, lines 459-465
generateSecret_legacy(secret) ==
    [secret |-> secret, secretHash |-> sha256_legacy(Buf(secret))]

(***************************************************************************)
(* Module state: src/unnamed/part_000, lines 136-148                       *)
(*                                                                         *)
(* The module's top level creates ECPair, TESTNET and the RegExp object    *)
(* HEX_RE.  No function assigns to the first two; HEX_RE.test is called by *)
(* toBuffer and assertValidTxInput, and a RegExp object carries lastIndex, *)
(* which test reads and writes when the literal has the g or y flag.       *)
(* hexRe is that object.  The copy in btc-htlc.ts has no module state      *)
(* besides ECPair and TESTNET.                                             *)
(***************************************************************************)
HEX_RE_withGlobalFlag == TRUE

\* const HEX_RE = /^[0-9a-fA-F]+$/ : no flags
HEX_RE_global == FALSE

\* The RegExp object as the module creates it
HEX_RE_object == [lastIndex |-> 0]

\* test on a RegExp that keeps its place between calls (the g flag)
RegExpTest_keepsPlace(re, s) ==
    [match |-> re.lastIndex = 0 /\ HEX_RE(s),
     re |-> [lastIndex |-> IF re.lastIndex = 0 /\ HEX_RE(s) THEN Len(s) ELSE 0]]

\* HEX_RE.test(s) on the object re: [match, re].  Without the g flag the match
\* starts at 0 and lastIndex is left alone; with it the match starts at
\* lastIndex (the pattern is anchored, so it matches only from 0) and lastIndex
\* becomes the end of the match, or 0 when there is none
RegExpTest(re, s) ==
    LET start == IF HEX_RE_global THEN re.lastIndex ELSE 0
        found == start = 0 /\ HEX_RE(s)
    IN  [match |-> found,
         re |-> IF HEX_RE_global THEN [lastIndex |-> IF found THEN Len(s) ELSE 0] ELSE re]

\* The argument whose text a step hands to HEX_RE.test
HexTestArgument ==
    ("toBuffer:secretHash" :> "secretHash") @@ ("toBuffer:buyerPubKey" :> "buyerPubKey")
    @@ ("toBuffer:sellerPubKey" :> "sellerPubKey") @@ ("toBuffer:privateKey" :> "privateKey")
    @@ ("toBuffer:secret" :> "secret") @@ ("toBuffer:redeemScript" :> "redeemScript")
    @@ ("assertValidTxInput" :> "prevTxId")

\* The strings (none or one) that the step called name of call c tests:
\* toBuffer tests a non-empty string of even length, assertValidTxInput tests
\* prevTxId whatever it is
HexTested(c, name) ==
    IF c.module # "part_000" \/ name \notin DOMAIN HexTestArgument THEN <<>>
    ELSE LET a == c.args[HexTestArgument[name]]
         IN  IF name = "assertValidTxInput" THEN <<a>>
             ELSE IF a.t = "str" /\ Len(a.v) > 0 /\ Len(a.v) % 2 = 0 THEN <<a.v>>
             ELSE <<>>

\* What the step called name throws when HEX_RE.test answers false
HexTestError(name) ==
    IF name = "assertValidTxInput"
    THEN assertValidTxInput(<<>>, Num(0), Num(2), Num(1))
    ELSE toBuffer(Str(<<"x", "x">>), HexTestArgument[name]).err

RECURSIVE ExecuteFrom(_, _, _, _)
\* The call c run on the RegExp object re from step k on: alone is what the
\* body does when every test answers as the pattern says; a test that answers
\* otherwise throws at its step
ExecuteFrom(re, c, alone, k) ==
    IF k > Len(alone.trace) THEN [result |-> alone, hexRe |-> re]
    ELSE LET tested == HexTested(c, alone.trace[k].name)
         IN  IF tested = <<>> THEN ExecuteFrom(re, c, alone, k + 1)
             ELSE LET t == RegExpTest(re, tested[1])
                  IN  IF t.match = HEX_RE(tested[1]) THEN ExecuteFrom(t.re, c, alone, k + 1)
                      ELSE [result |-> [status |-> "error",
                                        err |-> HexTestError(alone.trace[k].name),
                                        trace |-> SubSeq(alone.trace, 1, k),
                                        value |-> NoValue],
                            hexRe |-> t.re]

\* The body of call c as the pattern alone decides it
Body(c) ==
    LET a == c.args
    IN  CASE c.op = "generateHTLC" ->
               IF c.module = "part_000"
               THEN generateHTLC(a.secretHash, a.buyerPubKey, a.sellerPubKey, a.timeout,
                                 a.network)
               ELSE generateHTLC_legacy(a.secretHash, a.buyerPubKey, a.sellerPubKey,
                                        a.timeout, a.network)
          [] c.op = "createRedeemTx" ->
               IF c.module = "part_000"
               THEN createRedeemTx(a.prevTxId, a.prevIndex, a.amountSats, a.privateKey,
                                   a.secret, a.redeemScript, a.destinationAddress, a.feeSats,
                                   a.network)
               ELSE createRedeemTx_legacy(a.prevTxId, a.prevIndex, a.amountSats, a.privateKey,
                                          a.secret, a.redeemScript, a.destinationAddress,
                                          a.feeSats, a.network)
          [] c.op = "createRefundTx" ->
               IF c.module = "part_000"
               THEN createRefundTx(a.prevTxId, a.prevIndex, a.amountSats, a.privateKey,
                                   a.redeemScript, a.destinationAddress, a.timeout, a.feeSats,
                                   a.network)
               ELSE createRefundTx_legacy(a.prevTxId, a.prevIndex, a.amountSats, a.privateKey,
                                          a.redeemScript, a.destinationAddress, a.timeout,
                                          a.feeSats, a.network)

\* The call c run on the RegExp object re: [result, hexRe]
Execute(re, c) == ExecuteFrom(re, c, Body(c), 1)

(***************************************************************************)
(* The state machine: a caller makes a call; the call returns or throws    *)
(***************************************************************************)
Init ==
    /\ call \in Calls
    /\ pc = "ready"
    /\ result = NoValue
    /\ hexRe = HEX_RE_object
    /\ history = <<>>
    /\ pool = DarkPoolDeployed
    /\ ui = HomeMounted

GenerateHTLC ==
    /\ pc = "ready"
    /\ call.op = "generateHTLC"
    /\ LET done == Execute(hexRe, call)
       IN  result' = done.result /\ hexRe' = done.hexRe
    /\ pc' = "done"
    /\ UNCHANGED <<call, history, pool, ui>>

CreateRedeemTx ==
    /\ pc = "ready"
    /\ call.op = "createRedeemTx"
    /\ LET done == Execute(hexRe, call)
       IN  result' = done.result /\ hexRe' = done.hexRe
    /\ pc' = "done"
    /\ UNCHANGED <<call, history, pool, ui>>

CreateRefundTx ==
    /\ pc = "ready"
    /\ call.op = "createRefundTx"
    /\ LET done == Execute(hexRe, call)
       IN  result' = done.result /\ hexRe' = done.hexRe
    /\ pc' = "done"
    /\ UNCHANGED <<call, history, pool, ui>>

GenerateSecret ==
    /\ pc = "ready"
    /\ call.op = "generateSecret"
    /\ \E secret \in randomBytes(32) :
         result' = Outcome(Run(<<>>),
                           IF call.module = "part_000" THEN generateSecret(secret)
                           ELSE generateSecret_legacy(secret))
    /\ pc' = "done"
    /\ UNCHANGED <<call, hexRe, history, pool, ui>>

Next == GenerateHTLC \/ CreateRedeemTx \/ CreateRefundTx \/ GenerateSecret

Spec == Init /\ [][Next]_vars

(***************************************************************************)
(* The encoders on their own: encodeScriptNumber (part_000 590-610, the    *)
(* same text in btc-htlc.ts 414-434) and the witness serializer (part_000  *)
(* 549-584, the same text in btc-htlc.ts 373-408 and in                    *)
(* backend/scripts/redeem_htlc.ts 22-57), applied to inputs of their own.  *)
(***************************************************************************)
MaxSmallNumber == 300

MaxItems == 2

\* Script numbers: the small ones and those around each change of length
ScriptNumbers ==
    (0..MaxSmallNumber) \cup {32767, 32768, 65535, 65536, 8388607, 8388608, MAX_TIMEOUT}

\* Compact-size arguments: the small ones, those around each change of marker,
\* and 2^53 - 1
VarInts ==
    {Wide(n) : n \in (0..MaxSmallNumber) \cup {65535, 65536, 16777216}}
    \cup {<<65535, 65535, 0, 0>>, <<0, 0, 1, 0>>, <<1, 2, 3, 4>>, <<65535, 65535, 65535, 31>>}

\* Witness items: empty, one byte, a signature, a secret, a script, and items
\* around the change of marker
WitnessItems ==
    {<<>>, <<0>>, <<1>>, Signature(BUYER_PRIVATE_KEY), FixtureSecret,
     FixtureScript, Rep(170, 252), Rep(170, 253)}

RECURSIVE StacksOf(_)
\* The stacks of exactly n witness items
StacksOf(n) ==
    IF n = 0 THEN {<<>>}
    ELSE {<<item>> \o rest : item \in WitnessItems, rest \in StacksOf(n - 1)}

\* Witness stacks: every stack of up to MaxItems items, the two spends'
\* stacks, and stacks of 252 and 253 items
WitnessStacks ==
    UNION {StacksOf(n) : n \in 0..MaxItems}
    \cup {RedeemWitness(Signature(BUYER_PRIVATE_KEY), FixtureSecret,
                        FixtureScript),
          RefundWitness(Signature(SELLER_PRIVATE_KEY), FixtureScript),
          Rep(<<7>>, 252), Rep(<<>>, 253)}

CodecCalls ==
    {[op |-> "encodeScriptNumber", args |-> [num |-> Num(n)]] : n \in ScriptNumbers}
    \cup {[op |-> "writeVarInt", args |-> [n |-> n]] : n \in VarInts}
    \cup {[op |-> "witnessStackToScriptWitness", args |-> [witness |-> w]] :
            w \in WitnessStacks}

CodecInit ==
    /\ call \in CodecCalls
    /\ pc = "ready"
    /\ result = NoValue
    /\ hexRe = HEX_RE_object
    /\ history = <<>>
    /\ pool = DarkPoolDeployed
    /\ ui = HomeMounted

EncodeScriptNumber ==
    /\ pc = "ready"
    /\ call.op = "encodeScriptNumber"
    /\ result' = Outcome(Run(<<>>), encodeScriptNumber(call.args.num))
    /\ pc' = "done"
    /\ UNCHANGED <<call, hexRe, history, pool, ui>>

WriteVarInt ==
    /\ pc = "ready"
    /\ call.op = "writeVarInt"
    /\ result' = Outcome(Run(<<>>), writeVarInt(call.args.n))
    /\ pc' = "done"
    /\ UNCHANGED <<call, hexRe, history, pool, ui>>

WitnessStackToScriptWitness ==
    /\ pc = "ready"
    /\ call.op = "witnessStackToScriptWitness"
    /\ result' = Outcome(Run(<<>>), witnessStackToScriptWitness(call.args.witness))
    /\ pc' = "done"
    /\ UNCHANGED <<call, hexRe, history, pool, ui>>

CodecNext == EncodeScriptNumber \/ WriteVarInt \/ WitnessStackToScriptWitness

CodecSpec == CodecInit /\ [][CodecNext]_vars

(***************************************************************************)
(* A session: one importer of the module making call after call.  Every    *)
(* exported function is synchronous (no await, no callback), so calls that *)
(* a program issues concurrently still run one whole call after another,   *)
(* in some order: the orders are the interleavings.  history keeps the     *)
(* finished calls with what each returned or threw.                        *)
(***************************************************************************)
MaxCalls == 3

\* The calls of a session: the fixture's calls with a hex string for one
\* argument, and two calls that fail in the validator
SessionCalls ==
    {[module |-> m, op |-> "generateHTLC",
      args |-> [FixtureHTLCArgs EXCEPT !.secretHash = Str(ToHex(Sha256(FixtureSecret)))]] :
        m \in Modules}
    \cup {[module |-> "part_000", op |-> "createRedeemTx",
           args |-> [FixtureRedeemArgs EXCEPT !.secret = Str(ToHex(FixtureSecret))]],
          [module |-> "part_000", op |-> "generateHTLC",
           args |-> [FixtureHTLCArgs EXCEPT !.buyerPubKey = Str(<<"z", "z">>)]],
          [module |-> "part_000", op |-> "createRedeemTx",
           args |-> [FixtureRedeemArgs EXCEPT !.prevTxId = Rep("a", 63) \o <<"z">>]],
          [module |-> "part_000", op |-> "createRefundTx", args |-> FixtureRefundArgs]}

SessionInit ==
    /\ call \in SessionCalls
    /\ pc = "ready"
    /\ result = NoValue
    /\ hexRe = HEX_RE_object
    /\ history = <<>>
    /\ pool = DarkPoolDeployed
    /\ ui = HomeMounted

\* The caller takes the result and makes its next call
NextCall ==
    /\ pc = "done"
    /\ Len(history) + 1 < MaxCalls
    /\ history' = Append(history, [call |-> call, result |-> result])
    /\ call' \in SessionCalls
    /\ pc' = "ready"
    /\ result' = NoValue
    /\ UNCHANGED <<hexRe, pool, ui>>

SessionNext == GenerateHTLC \/ CreateRedeemTx \/ CreateRefundTx \/ NextCall

SessionSpec == SessionInit /\ [][SessionNext]_vars

(***************************************************************************)
(* The contract's script on its own: an input spending the funding output  *)
(* of a contract with some witness and some nSequence                      *)
(***************************************************************************)
\* The timeouts of the contracts: small ones, the ends of the 16-bit field,
\* one with bit 22 set, and the largest
ContractTimeouts == {1, 10, 144, 65535, 65536, 4194304 + 10, MAX_TIMEOUT}

\* nSequence values: around the timeouts, with bit 22, with bit 31, the default
Sequences ==
    {UInt32(0), UInt32(9), UInt32(10), UInt32(144), UInt32(65535), UInt32(65536 + 10),
     UInt32(4194304 + 10), UInt32(MAX_TIMEOUT), [hi |-> 32768, lo |-> 144],
     DEFAULT_SEQUENCE}

\* Signatures: the buyer's, the seller's, a stranger's, none
Signatures ==
    {Signature(BUYER_PRIVATE_KEY), Signature(SELLER_PRIVATE_KEY), Signature(Rep(51, 32)), <<>>}

\* The items before the script: the shape of a claim (signature, secret,
\* selector) and that of a refund (signature, selector)
StackItems ==
    {<<sig, secret, selector>> :
        sig \in Signatures, secret \in {FixtureSecret, Rep(9, 32)},
        selector \in {<<1>>, <<>>}}
    \cup {<<sig, selector>> : sig \in Signatures, selector \in {<<>>, <<1>>}}

ScriptCalls ==
    {[op |-> "verifyInput",
      args |-> [timeout |-> t, redeemScript |-> ScriptFor(t), items |-> items,
                sequence |-> sequence]] :
        t \in ContractTimeouts, items \in StackItems, sequence \in Sequences}

ScriptInit ==
    /\ call \in ScriptCalls
    /\ pc = "ready"
    /\ result = NoValue
    /\ hexRe = HEX_RE_object
    /\ history = <<>>
    /\ pool = DarkPoolDeployed
    /\ ui = HomeMounted

\* The network validates the input of a version 2 transaction
VerifyWitness ==
    /\ pc = "ready"
    /\ call.op = "verifyInput"
    /\ result' = Outcome(Run(<<>>),
                         VerifyInput(p2wsh(call.args.redeemScript, TESTNET).hash,
                                     Append(call.args.items, call.args.redeemScript), 2,
                                     call.args.sequence))
    /\ pc' = "done"
    /\ UNCHANGED <<call, hexRe, history, pool, ui>>

ScriptNext == VerifyWitness

ScriptSpec == ScriptInit /\ [][ScriptNext]_vars

(***************************************************************************)
(* The DarkPool contract on its chain: transactions of sellers and of      *)
(* whoever holds a secret, blocks passing, a token freezing its transfers, *)
(* and the buyer spending the Bitcoin contract with a revealed secret      *)
(***************************************************************************)
MaxOrders == 2

MaxAdvances == 1

\* The amounts of the orders: none, and what the sellers can and cannot pay
OrderAmounts == {0, 1, 3}

\* The secrets of the transactions: a seller's, and another
Secrets == {U256(FixtureSecret), U256(Rep(9, 32))}

\* The hash the seller has made of her secret with the client's sha256, and
\* has built the Bitcoin contract on
SellersHash == U256(sha256(Buf(FixtureSecret)).buf)

\* Blocks pass: one fewer than the timeout, or as many
BlockSteps == {TIMEOUT_BLOCKS - 1, TIMEOUT_BLOCKS}

\* The transaction ran in the world of pool: its outcome is on the chain
Mined(op, order_id, done) ==
    pool' = [pool EXCEPT !.world = done.world,
                         !.tx = [op |-> op, ok |-> done.ok, error |-> done.error,
                                 order_id |-> order_id, value |-> done.value]]

PoolIdle == [module |-> "part_000", op |-> "none", args |-> NoValue]

PoolInit ==
    /\ call = PoolIdle
    /\ pc = "ready"
    /\ result = NoValue
    /\ hexRe = HEX_RE_object
    /\ history = <<>>
    /\ pool = DarkPoolDeployed
    /\ ui = HomeMounted

\* One create_order transaction
CreateOrderTx(caller, amount, token_address, secret_hash, buyer) ==
    Mined("create_order", pool.world.order_count,
          create_order(pool.world, caller, pool.block, amount, token_address, secret_hash,
                       buyer))

CreateOrder ==
    /\ pool.world.order_count < MaxOrders
    /\ \E caller \in {ALICE, CAROL}, amount \in OrderAmounts,
          token_address \in {ZERO_ADDRESS, USDC}, buyer \in {ZERO_ADDRESS, BOB} :
          CreateOrderTx(caller, amount, token_address, SellersHash, buyer)
    /\ UNCHANGED <<call, pc, result, hexRe, history, ui>>

\* One claim_order transaction, of any caller
ClaimOrderTx(order_id, secret) ==
    Mined("claim_order", order_id, claim_order(pool.world, order_id, secret))

ClaimOrder ==
    /\ \E order_id \in 0..pool.world.order_count, secret \in Secrets :
          ClaimOrderTx(order_id, secret)
    /\ UNCHANGED <<call, pc, result, hexRe, history, ui>>

\* One cancel_order transaction
CancelOrderTx(caller, order_id) ==
    Mined("cancel_order", order_id, cancel_order(pool.world, caller, pool.block, order_id))

CancelOrder ==
    /\ \E caller \in {ALICE, CAROL}, order_id \in 0..pool.world.order_count :
          CancelOrderTx(caller, order_id)
    /\ UNCHANGED <<call, pc, result, hexRe, history, ui>>

AdvanceBlock ==
    /\ pool.advances < MaxAdvances
    /\ \E n \in BlockSteps :
          pool' = [pool EXCEPT !.block = @ + n, !.advances = @ + 1]
    /\ UNCHANGED <<call, pc, result, hexRe, history, ui>>

\* The token stops or resumes its transfers
FreezeToken ==
    /\ pool' = [pool EXCEPT !.world.frozen = IF USDC \in @ THEN {} ELSE {USDC}]
    /\ UNCHANGED <<call, pc, result, hexRe, history, ui>>

\* The SecretRevealed events of a log
SecretsRevealed(events) ==
    {events[k] : k \in {j \in 1..Len(events) : events[j].event = "SecretRevealed"}}

\* The buyer's createRedeemTx call with the secret of a SecretRevealed event,
\* as 64 hex characters, on the Bitcoin contract built on this hash
RedeemCall(module, secret, secret_hash) ==
    [module |-> module,
     op |-> "createRedeemTx",
     args |-> [FixtureRedeemArgs EXCEPT
                 !.secret = Str(ToHex(U256Bytes(secret))),
                 !.redeemScript =
                     Buf(generateHTLC(Buf(U256Bytes(secret_hash)), FixtureHTLCArgs.buyerPubKey,
                                      FixtureHTLCArgs.sellerPubKey, FixtureHTLCArgs.timeout,
                                      TESTNET).value.redeemScript)]]

\* The buyer has caught the SecretRevealed event of the claim just mined and
\* spends the Bitcoin contract of that order's hash with its secret
RedeemRevealed ==
    /\ pc = "ready"
    /\ pool.tx.op = "claim_order"
    /\ pool.tx.ok
    /\ \E module \in Modules :
          LET revealed == pool.world.events[Len(pool.world.events)]
              c == RedeemCall(module, revealed.secret,
                              get_order(pool.world, revealed.order_id).secret_hash)
              done == Execute(hexRe, c)
          IN  /\ call' = c
              /\ result' = done.result
              /\ hexRe' = done.hexRe
    /\ pc' = "done"
    /\ UNCHANGED <<history, pool, ui>>

PoolNext == CreateOrder \/ ClaimOrder \/ CancelOrder \/ AdvanceBlock \/ FreezeToken

PoolSpec == PoolInit /\ [][PoolNext]_vars

(***************************************************************************)
(* The swap across the two chains: orders are created and claimed on       *)
(* Starknet, and the buyer redeems on Bitcoin with what a claim reveals    *)
(***************************************************************************)
SwapNext == CreateOrder \/ ClaimOrder \/ RedeemRevealed

SwapSpec == PoolInit /\ [][SwapNext]_vars

(***************************************************************************)
(* The frontend: a user clicking through the Home component while the      *)
(* timers of handleSwap fire                                               *)
(***************************************************************************)
MaxLoops == 2

UiInit ==
    /\ call = PoolIdle
    /\ pc = "ready"
    /\ result = NoValue
    /\ hexRe = HEX_RE_object
    /\ history = <<>>
    /\ pool = DarkPoolDeployed
    /\ ui = HomeMounted

\* A click on one of the tabs of the header
SetActiveTab ==
    /\ \E tab \in {"swap", "orders", "demo"} : ui' = [ui EXCEPT !.activeTab = tab]
    /\ UNCHANGED <<call, pc, result, hexRe, history, pool>>

\* A click on 'Create Order': the button is on the swap tab, and disabled
\* while isSwapping
ClickCreateOrder ==
    /\ ui.activeTab = "swap"
    /\ ~ui.isSwapping
    /\ Len(ui.loops) < MaxLoops
    /\ ui' = handleSwap(ui)
    /\ UNCHANGED <<call, pc, result, hexRe, history, pool>>

\* The oldest timer fires
TimerFires ==
    /\ ui.loops # <<>>
    /\ ui' = handleSwapResumed(ui)
    /\ UNCHANGED <<call, pc, result, hexRe, history, pool>>

\* A click on 'Reset Demo': the button is on the swap tab, and rendered only
\* when demoStep is 6
ClickResetDemo ==
    /\ ui.activeTab = "swap"
    /\ ui.demoStep = 6
    /\ ui' = handleReset(ui)
    /\ UNCHANGED <<call, pc, result, hexRe, history, pool>>

UiNext == SetActiveTab \/ ClickCreateOrder \/ TimerFires \/ ClickResetDemo

UiSpec == UiInit /\ [][UiNext]_vars

(***************************************************************************)
(* What a caller observes of a finished call                               *)
(***************************************************************************)
Returned(op) == pc = "done" /\ call.op = op /\ result.status = "ok"

Threw(op) == pc = "done" /\ call.op = op /\ result.status = "error"

Spent == Returned("createRedeemTx") \/ Returned("createRefundTx")

SpendFailed == Threw("createRedeemTx") \/ Threw("createRefundTx")

\* The bytes an argument of type string | Buffer stands for
Bytes(input) == IF input.t = "str" THEN BufferFromHex(input.v) ELSE input.v

\* The value of an unsigned 32-bit field
UInt32Value(u) == u.hi * 65536 + u.lo

\* The copy of the module with the input validator
Validated == call.module = "part_000"

(***************************************************************************)
(* The documented domain of each argument                                  *)
(***************************************************************************)
\* A Buffer, or a non-empty hex string of whole bytes
ValidHex(input) ==
    input.t = "buf" \/ (Len(input.v) > 0 /\ Len(input.v) % 2 = 0 /\ HEX_RE(input.v))

ValidPrivateKey(input) == ValidHex(input) /\ isPrivate(Bytes(input))

ValidSecret(input) == ValidHex(input) /\ Len(Bytes(input)) = 32

ValidScript(input) == ValidHex(input) /\ Len(Bytes(input)) > 0

ValidPrevTxId(txid) == Len(txid) = 64 /\ HEX_RE(txid)

ValidPrevIndex(n) == IsInteger(n) /\ n.i >= 0

ValidAmount(n) == IsInteger(n) /\ n.i >= 1

ValidFee(fee, amount) == IsInteger(fee) /\ fee.i >= 1 /\ Halves(fee) < Halves(amount)

ValidAddress(address, network) == toOutputScript(address, network).ok

ValidTimeout(n) == IsInteger(n) /\ n.i >= 1 /\ n.i <= MAX_TIMEOUT

\* The arguments of a spending call
SpendArguments ==
    {"prevTxId", "prevIndex", "amountSats", "privateKey", "secret", "redeemScript",
     "destinationAddress", "timeout", "feeSats"}

\* Argument f of the spending call is in its documented domain (an argument
\* the operation does not take is)
ArgumentValid(f) ==
    LET a == call.args
    IN  CASE f = "prevTxId" -> ValidPrevTxId(a.prevTxId)
          [] f = "prevIndex" -> ValidPrevIndex(a.prevIndex)
          [] f = "amountSats" -> ValidAmount(a.amountSats)
          [] f = "privateKey" -> ValidPrivateKey(a.privateKey)
          [] f = "secret" -> call.op # "createRedeemTx" \/ ValidSecret(a.secret)
          [] f = "redeemScript" -> ValidScript(a.redeemScript)
          [] f = "destinationAddress" -> ValidAddress(a.destinationAddress, a.network)
          [] f = "timeout" -> call.op # "createRefundTx" \/ ValidTimeout(a.timeout)
          [] f = "feeSats" -> ValidFee(a.feeSats, a.amountSats)

\* A finished spending call whose arguments other than those of skip are valid
SpendCallValidBut(skip) ==
    /\ pc = "done"
    /\ call.op \in {"createRedeemTx", "createRefundTx"}
    /\ \A f \in SpendArguments \ skip : ArgumentValid(f)

(***************************************************************************)
(* C1: the witness of a redeem transaction                                 *)
(***************************************************************************)
\* C1: every transaction createRedeemTx returns has one input whose witness
\* is exactly the four items [signature, secret, 0x01, redeemScript]: the
\* second is byte-identical to the secret passed in, the third is the single
\* byte 0x01, the fourth is byte-identical to the redeem script passed in.
C1_RedeemWitness ==
    Returned("createRedeemTx") =>
        /\ Len(result.value.tx.ins) = 1
        /\ LET w == result.value.tx.ins[1].witness
           IN  /\ Len(w) = 4
               /\ w[1] = Signature(Bytes(call.args.privateKey))
               /\ w[2] = Bytes(call.args.secret)
               /\ w[3] = <<1>>
               /\ w[4] = Bytes(call.args.redeemScript)

\* A redeem transaction built from a secret and a script given as hex strings
C1_Witness ==
    /\ Returned("createRedeemTx")
    /\ call.args.secret.t = "str"
    /\ call.args.redeemScript.t = "str"
    /\ Len(result.value.tx.ins[1].witness) = 4

(***************************************************************************)
(* C2: the witness and the sequence of a refund transaction                *)
(***************************************************************************)
\* C2: every transaction createRefundTx returns has one input whose witness
\* is exactly the three items [signature, empty, redeemScript], the second
\* of zero length and the third byte-identical to the redeem script passed
\* in, and whose sequence number equals the timeout passed in.
C2_RefundWitness ==
    Returned("createRefundTx") =>
        /\ Len(result.value.tx.ins) = 1
        /\ LET in == result.value.tx.ins[1]
           IN  /\ Len(in.witness) = 3
               /\ in.witness[1] = Signature(Bytes(call.args.privateKey))
               /\ in.witness[2] = <<>>
               /\ in.witness[3] = Bytes(call.args.redeemScript)
               /\ IsInteger(call.args.timeout)
               /\ UInt32Value(in.sequence) = call.args.timeout.i

\* A refund transaction whose timeout is not the fixture's
C2_Witness ==
    /\ Returned("createRefundTx")
    /\ call.args.timeout = Num(10)
    /\ UInt32Value(result.value.tx.ins[1].sequence) = 10
    /\ result.value.tx.ins[1].witness[2] = <<>>

(***************************************************************************)
(* C3: the shape of a spending transaction                                 *)
(***************************************************************************)
\* C3: every transaction createRedeemTx or createRefundTx returns has exactly
\* one input, referencing (prevTxId, prevIndex), and exactly one output,
\* paying amountSats - feeSats to the destination address, where
\* 0 < feeSats < amountSats and both are integers.
C3_SpendShape ==
    Spent =>
        LET a == call.args
            tx == result.value.tx
        IN  /\ Len(tx.ins) = 1
            /\ ValidPrevTxId(a.prevTxId)
            /\ tx.ins[1].hash = Reverse(BufferFromHex(a.prevTxId))
            /\ IsInteger(a.prevIndex)
            /\ tx.ins[1].index = a.prevIndex.i
            /\ Len(tx.outs) = 1
            /\ ValidAddress(a.destinationAddress, a.network)
            /\ tx.outs[1].script = toOutputScript(a.destinationAddress, a.network).script
            /\ IsInteger(a.amountSats) /\ IsInteger(a.feeSats)
            /\ 0 < a.feeSats.i /\ a.feeSats.i < a.amountSats.i
            /\ tx.outs[1].value = a.amountSats.i - a.feeSats.i
            /\ tx.outs[1].value > 0

\* C3 in the copy with the input validator
C3_SpendShapeValidated == Validated => C3_SpendShape

\* C3: the copy without the validator returns a transaction for feeSats = 0
C3_ZeroFeeSpent ==
    /\ Spent
    /\ ~Validated
    /\ call.args.feeSats = Num(0)
    /\ result.value.tx.outs[1].value = call.args.amountSats.i

(***************************************************************************)
(* C4: feeSats >= amountSats                                               *)
(***************************************************************************)
\* C4: createRedeemTx and createRefundTx, called with feeSats >= amountSats
\* and otherwise valid arguments, fail with an error whose message refers to
\* feeSats, and return no transaction.
C4_FeeNotBelowAmount ==
    (SpendCallValidBut({"feeSats"}) /\ NumGeq(call.args.feeSats, call.args.amountSats)) =>
        /\ result.status = "error"
        /\ Matches(result.err.msg, <<"feeSats">>)

\* C4 in the copy with the input validator
C4_FeeNotBelowAmountValidated == Validated => C4_FeeNotBelowAmount

\* C4: amount 300, fee 500 in the copy without the validator
C4_OutputAmountMessage ==
    /\ SpendFailed
    /\ ~Validated
    /\ call.args.amountSats = Num(300)
    /\ call.args.feeSats = Num(500)
    /\ Matches(result.err.msg, <<"Output", "amount", "must", "be", "positive">>)
    /\ ~Matches(result.err.msg, <<"feeSats">>)

(***************************************************************************)
(* C5: checks before cryptographic work                                    *)
(***************************************************************************)
\* No check follows a cryptographic or script-building step
ChecksFirst(trace) ==
    \A i, j \in 1..Len(trace) :
        (i < j /\ trace[i].kind # "check") => trace[j].kind # "check"

\* C5: in createRedeemTx and createRefundTx every input check completes
\* before any cryptographic or script-building step starts, the creation of
\* the key pair from the private key included.
C5_ChecksBeforeCrypto ==
    (pc = "done" /\ call.op \in {"createRedeemTx", "createRefundTx"}) =>
        ChecksFirst(result.trace)

\* C5: a 31-byte secret is reported after the key pair was created
C5_KeyPairBeforeSecretCheck ==
    /\ Threw("createRedeemTx")
    /\ Validated
    /\ Bytes(call.args.secret) = Rep(1, 31)
    /\ Matches(result.err.msg, <<"Invalid", "secret", "length">>)
    /\ \E k \in 1..Len(result.trace) : result.trace[k].kind = "crypto"

(***************************************************************************)
(* C6: the timeout range                                                   *)
(***************************************************************************)
\* C6: generateHTLC and createRefundTx produce a script or a transaction
\* only for a timeout that is an integer in [1, 0xFFFFFF]; zero, negative,
\* non-integral and larger values are rejected.
C6_TimeoutRange ==
    (Returned("generateHTLC") \/ Returned("createRefundTx")) =>
        ValidTimeout(call.args.timeout)

\* C6 in the copy with the input validator
C6_TimeoutRangeValidated == Validated => C6_TimeoutRange

\* C6: the copy without the validator builds a script for the timeout 1.5
C6_FractionalTimeoutScript ==
    /\ Returned("generateHTLC")
    /\ ~Validated
    /\ call.args.timeout = Half(1)

\* C6: the copy without the validator builds a refund with the timeout 0
C6_ZeroTimeoutRefund ==
    /\ Returned("createRefundTx")
    /\ ~Validated
    /\ call.args.timeout = Num(0)
    /\ UInt32Value(result.value.tx.ins[1].sequence) = 0

(***************************************************************************)
(* C7: the form of prevTxId                                                *)
(***************************************************************************)
\* C7: createRedeemTx and createRefundTx, called with a prevTxId that is not
\* exactly 64 hexadecimal characters and otherwise valid arguments, fail
\* with an error matching 'Invalid prevTxId' and return no transaction.
C7_PrevTxIdRejected ==
    (SpendCallValidBut({"prevTxId"}) /\ ~ValidPrevTxId(call.args.prevTxId)) =>
        /\ result.status = "error"
        /\ Matches(result.err.msg, <<"Invalid", "prevTxId">>)

\* C7 in the copy with the input validator
C7_PrevTxIdRejectedValidated == Validated => C7_PrevTxIdRejected

\* C7: the copy without the validator spends a prevTxId of 65 characters
C7_LongTxIdSpent ==
    /\ Spent
    /\ ~Validated
    /\ Len(call.args.prevTxId) = 65

\* C7: the copy without the validator leaves "1234" to the library
C7_ShortTxIdLibraryError ==
    /\ SpendFailed
    /\ ~Validated
    /\ call.args.prevTxId = <<"1", "2", "3", "4">>
    /\ result.err.site = "psbt.addInput"
    /\ ~Matches(result.err.msg, <<"Invalid", "prevTxId">>)

(***************************************************************************)
(* C8: the length of the secret                                            *)
(***************************************************************************)
\* C8 as stated: createRedeemTx, called with a secret that is not exactly 32
\* bytes long and otherwise valid arguments, fails with an error matching
\* 'Invalid secret length'.
C8_SecretLengthMessage ==
    (SpendCallValidBut({"secret"}) /\ call.op = "createRedeemTx"
        /\ Len(Bytes(call.args.secret)) # 32) =>
        /\ result.status = "error"
        /\ Matches(result.err.msg, <<"Invalid", "secret", "length">>)

\* C8, amended: createRedeemTx returns no transaction for a secret that is
\* not exactly 32 bytes long. With the other arguments valid the error
\* matches 'Invalid secret length' when the secret is a Buffer or a non-empty
\* hex string of whole bytes; an empty or malformed hex string is reported
\* as such by the copy with the validator ('secret cannot be empty', 'secret
\* must be a valid even-length hex string') and as a secret length by the
\* other copy.
C8_SecretRejected ==
    (pc = "done" /\ call.op = "createRedeemTx" /\ Len(Bytes(call.args.secret)) # 32) =>
        /\ result.status = "error"
        /\ SpendCallValidBut({"secret"}) =>
              IF ValidHex(call.args.secret) \/ ~Validated
              THEN Matches(result.err.msg, <<"Invalid", "secret", "length">>)
              ELSE \/ Matches(result.err.msg, <<"secret", "cannot", "be", "empty">>)
                   \/ Matches(result.err.msg,
                              <<"secret", "must", "be", "a", "valid", "even-length", "hex",
                                "string">>)

\* A 31-byte secret rejected by its length, the other arguments being valid
C8_Witness ==
    /\ Threw("createRedeemTx")
    /\ SpendCallValidBut({"secret"})
    /\ call.args.secret = Buf(Rep(1, 31))
    /\ Matches(result.err.msg, <<"Invalid", "secret", "length">>)

\* C8: the empty hex string is rejected as empty, not by its length
C8_EmptySecretMessage ==
    /\ Threw("createRedeemTx")
    /\ Validated
    /\ SpendCallValidBut({"secret"})
    /\ call.args.secret = Str(<<>>)
    /\ Matches(result.err.msg, <<"secret", "cannot", "be", "empty">>)

(***************************************************************************)
(* C9: the destination address                                             *)
(***************************************************************************)
\* C9: createRedeemTx and createRefundTx, called with a destination address
\* that does not decode under the selected network and otherwise valid
\* arguments, fail with an error matching 'Invalid destination address' that
\* names the address, and return no transaction.
C9_AddressRejected ==
    (SpendCallValidBut({"destinationAddress"})
        /\ ~ValidAddress(call.args.destinationAddress, call.args.network)) =>
        /\ result.status = "error"
        /\ Matches(result.err.msg, <<"Invalid", "destination", "address">>)
        /\ \E k \in 1..Len(result.err.msg) :
              result.err.msg[k] = Val(call.args.destinationAddress.text)

\* C9 in the copy with the input validator
C9_AddressRejectedValidated == Validated => C9_AddressRejected

\* C9: the copy without the validator leaves "not-an-address" to the library
C9_AddressLibraryError ==
    /\ SpendFailed
    /\ ~Validated
    /\ call.args.destinationAddress = NotAnAddress
    /\ result.err.site = "psbt.addOutput"
    /\ ~Matches(result.err.msg, <<"Invalid", "destination", "address">>)

(***************************************************************************)
(* C10: the contract script                                                *)
(***************************************************************************)
\* The arguments of generateHTLC in their documented domain
ValidHTLCArguments ==
    LET a == call.args
    IN  /\ ValidHex(a.secretHash) /\ Len(Bytes(a.secretHash)) = 32
        /\ ValidHex(a.buyerPubKey) /\ isPoint(Bytes(a.buyerPubKey))
        /\ ValidHex(a.sellerPubKey) /\ isPoint(Bytes(a.sellerPubKey))
        /\ ValidTimeout(a.timeout)

RECURSIVE LittleEndianValue(_)
\* The number a little-endian byte string stands for
LittleEndianValue(b) == IF b = <<>> THEN 0 ELSE Head(b) + 256 * LittleEndianValue(Tail(b))

\* b is the script number of the positive integer n: little-endian, the top
\* bit of the last byte clear, and no byte more than that takes
IsScriptNumber(b, n) ==
    /\ Len(b) >= 1
    /\ b[Len(b)] < 128
    /\ b[Len(b)] = 0 => (Len(b) >= 2 /\ b[Len(b) - 1] >= 128)
    /\ LittleEndianValue(b) = n

\* e is the script element that pushes the script number of n: the opcode
\* OP_1..OP_16 for 1..16, else the length of the number and its bytes
IsScriptNumberPush(e, n) ==
    IF n \in 1..16 THEN e = <<OP_RESERVED + n>>
    ELSE /\ Len(e) >= 2
         /\ e[1] = Len(e) - 1
         /\ IsScriptNumber(Tail(e), n)

\* C10: for valid inputs the script generateHTLC returns is exactly OP_IF
\* OP_SHA256 <secretHash> OP_EQUALVERIFY <buyerPubKey> OP_CHECKSIG OP_ELSE
\* <script number of timeout> OP_CHECKSEQUENCEVERIFY OP_DROP <sellerPubKey>
\* OP_CHECKSIG OP_ENDIF: the buyer's key in the IF branch, the timeout and
\* the seller's key in the ELSE branch.
C10_ContractScript ==
    (Returned("generateHTLC") /\ ValidHTLCArguments) =>
        LET a == call.args
            script == result.value.redeemScript
            ifBranch == <<OP_IF, OP_SHA256, 32>> \o Bytes(a.secretHash)
                        \o <<OP_EQUALVERIFY, 33>> \o Bytes(a.buyerPubKey)
                        \o <<OP_CHECKSIG, OP_ELSE>>
            elseEnd == <<OP_CHECKSEQUENCEVERIFY, OP_DROP, 33>> \o Bytes(a.sellerPubKey)
                       \o <<OP_CHECKSIG, OP_ENDIF>>
        IN  /\ Len(script) > Len(ifBranch) + Len(elseEnd)
            /\ SubSeq(script, 1, Len(ifBranch)) = ifBranch
            /\ SubSeq(script, Len(script) - Len(elseEnd) + 1, Len(script)) = elseEnd
            /\ IsScriptNumberPush(
                  SubSeq(script, Len(ifBranch) + 1, Len(script) - Len(elseEnd)),
                  a.timeout.i)

\* A script built for a timeout whose script number ends in a sign byte
C10_Witness ==
    /\ Returned("generateHTLC")
    /\ ValidHTLCArguments
    /\ call.args.timeout = Num(MAX_TIMEOUT)
    /\ Len(result.value.redeemScript) = 110 + 5

\* A script built for a timeout that compiles to a single opcode
C10_SmallTimeoutScript ==
    /\ Returned("generateHTLC")
    /\ ValidHTLCArguments
    /\ call.args.timeout = Num(16)
    /\ Len(result.value.redeemScript) = 110 + 1
\* b is the minimal script number of the integer n >= 0: nothing for 0;
\* otherwise the little-endian bytes of n, the top bit of the last byte clear,
\* and a last byte of zero only where the byte before it has its top bit set
IsMinimalScriptNumber(b, n) ==
    IF n = 0 THEN b = <<>>
    ELSE /\ Len(b) >= 1
         /\ \A k \in 1..Len(b) : b[k] \in 0..255
         /\ b[Len(b)] < 128
         /\ LittleEndianValue(b) = n
         /\ b[Len(b)] = 0 => (Len(b) >= 2 /\ b[Len(b) - 1] >= 128)

\* C11: for an integer n in [0, 0xFFFFFF], encodeScriptNumber(n) is the
\* minimal signed little-endian script number of n: empty for 0, one
\* zero byte appended exactly when the top bit of the highest byte is set;
\* 0 -> [], 127 -> [7F], 128 -> [80 00], 144 -> [90 00], 255 -> [FF 00],
\* 256 -> [00 01].
C11_MinimalEncoding ==
    Returned("encodeScriptNumber") =>
        LET n == call.args.num.i
            b == result.value
        IN  /\ IsMinimalScriptNumber(b, n)
            /\ n = 0 => b = <<>>
            /\ n = 127 => b = <<127>>
            /\ n = 128 => b = <<128, 0>>
            /\ n = 144 => b = <<144, 0>>
            /\ n = 255 => b = <<255, 0>>
            /\ n = 256 => b = <<0, 1>>

C11_Witness ==
    /\ Returned("encodeScriptNumber")
    /\ call.args.num = Num(128)
    /\ result.value = <<128, 0>>

\* Byte k (from 0, the least significant) of the number n given by its words
WideByte(n, k) == (n[(k \div 2) + 1] \div (IF k % 2 = 0 THEN 1 ELSE 256)) % 256

\* n in count little-endian bytes
LittleEndianBytes(n, count) == [k \in 1..count |-> WideByte(n, k - 1)]

\* n < 2^(16 * words)
WideBelow(n, words) == \A k \in (words + 1)..4 : n[k] = 0

\* C12: writeVarInt encodes n < 0xfd as the single byte n, 0xfd <= n <= 0xffff
\* as 0xfd and n in 2 little-endian bytes, 0x10000 <= n <= 0xffffffff as 0xfe
\* and n in 4 little-endian bytes, larger n as 0xff and n in 8 little-endian
\* bytes; 0xfc takes 1 byte, 0xfd and 0xffff take 3, 0x10000 takes 5.
C12_CompactSize ==
    Returned("writeVarInt") =>
        LET n == call.args.n
            b == result.value
        IN  /\ (WideBelow(n, 1) /\ n[1] < 253) => b = <<n[1]>>
            /\ (WideBelow(n, 1) /\ n[1] >= 253) => b = <<253>> \o LittleEndianBytes(n, 2)
            /\ (WideBelow(n, 2) /\ ~WideBelow(n, 1)) => b = <<254>> \o LittleEndianBytes(n, 4)
            /\ ~WideBelow(n, 2) => b = <<255>> \o LittleEndianBytes(n, 8)
            /\ n = Wide(252) => Len(b) = 1
            /\ n \in {Wide(253), Wide(65535)} => Len(b) = 3
            /\ n = Wide(65536) => Len(b) = 5

\* 2^32, the first number of the 0xff range
C12_Witness ==
    /\ Returned("writeVarInt")
    /\ call.args.n = <<0, 0, 1, 0>>
    /\ result.value = <<255, 0, 0, 0, 0, 1, 0, 0, 0>>

\* The compact-size encoding of a length below 2^31
CompactSize(n) ==
    IF n < 253 THEN <<n>>
    ELSE IF n <= 65535 THEN <<253>> \o LittleEndianBytes(Wide(n), 2)
    ELSE <<254>> \o LittleEndianBytes(Wide(n), 4)

RECURSIVE SerializedSize(_, _, _)
\* The bytes that items lo..hi of the stack w take, each with its length
SerializedSize(w, lo, hi) ==
    IF lo > hi THEN 0
    ELSE IF lo = hi THEN Len(CompactSize(Len(w[lo]))) + Len(w[lo])
    ELSE LET mid == (lo + hi) \div 2
         IN  SerializedSize(w, lo, mid) + SerializedSize(w, mid + 1, hi)

\* Where item k of the stack w starts in its serialization (from 0)
ItemOffset(w, k) == Len(CompactSize(Len(w))) + SerializedSize(w, 1, k - 1)

\* C13: witnessStackToScriptWitness returns the compact-size item count, then
\* for each item in the given order the compact-size length of the item and
\* its raw bytes, and nothing else; an empty item contributes the single
\* byte 0x00.
C13_WitnessSerialization ==
    Returned("witnessStackToScriptWitness") =>
        LET w == call.args.witness
            b == result.value
            count == CompactSize(Len(w))
        IN  /\ Len(b) = ItemOffset(w, Len(w) + 1)
            /\ SubSeq(b, 1, Len(count)) = count
            /\ \A k \in 1..Len(w) :
                 LET from == ItemOffset(w, k)
                     length == CompactSize(Len(w[k]))
                 IN  /\ SubSeq(b, from + 1, from + Len(length)) = length
                     /\ SubSeq(b, from + Len(length) + 1, ItemOffset(w, k + 1)) = w[k]
                     /\ w[k] = <<>> => SubSeq(b, from + 1, ItemOffset(w, k + 1)) = <<0>>

\* The refund stack, whose second item is empty
C13_Witness ==
    /\ Returned("witnessStackToScriptWitness")
    /\ call.args.witness = RefundWitness(Signature(SELLER_PRIVATE_KEY), FixtureScript)
    /\ result.value[Len(Signature(SELLER_PRIVATE_KEY)) + 3] = 0
    /\ scriptWitnessToWitnessStack(result.value) = call.args.witness

\* The calls of the session that have finished, in order
Finished ==
    history \o (IF pc = "done" THEN <<[call |-> call, result |-> result]>> ELSE <<>>)

\* C14: generateHTLC is deterministic: two calls with the same arguments,
\* whatever calls come before or between them, return the same script, the
\* same witness script hash and the same address.
C14_Deterministic ==
    \A i, j \in DOMAIN Finished :
        LET first == Finished[i]
            second == Finished[j]
        IN  (first.call.op = "generateHTLC" /\ second.call = first.call
             /\ first.result.status = "ok") =>
                /\ second.result.status = "ok"
                /\ second.result.value.redeemScript = first.result.value.redeemScript
                /\ second.result.value.witnessScriptHash = first.result.value.witnessScriptHash
                /\ second.result.value.address = first.result.value.address

\* generateHTLC, then a spend, then generateHTLC again with the same arguments
C14_Witness ==
    /\ Len(history) = 2
    /\ Returned("generateHTLC")
    /\ history[1].call = call
    /\ history[1].result.status = "ok"
    /\ history[2].call.op = "createRedeemTx"
    /\ result.value.redeemScript = FixtureScript

\* The call got as far as compiling a script
ScriptCompiled == \E k \in 1..Len(result.trace) : result.trace[k].name = "script.compile"

\* C15: generateHTLC assembles a script only if secretHash is exactly 32
\* bytes and both public keys are 33 bytes and valid curve points; a 33-byte
\* value that is not a curve point is rejected before the script is compiled.
C15_ScriptOnlyForCurvePoints ==
    (pc = "done" /\ call.op = "generateHTLC") =>
        LET a == call.args
        IN  /\ ScriptCompiled =>
                 /\ Len(Bytes(a.secretHash)) = 32
                 /\ isPoint(Bytes(a.buyerPubKey))
                 /\ isPoint(Bytes(a.sellerPubKey))
            /\ \A key \in {Bytes(a.buyerPubKey), Bytes(a.sellerPubKey)} :
                 (Len(key) = 33 /\ ~isPoint(key)) =>
                     result.status = "error" /\ ~ScriptCompiled

\* C15 holds of the copy with the validator
C15_ScriptOnlyForCurvePointsValidated == Validated => C15_ScriptOnlyForCurvePoints

\* C15: the copy without the validator returns a script for a buyer key of 33
\* bytes that is no curve point
C15_NonPointCompiled ==
    /\ Returned("generateHTLC")
    /\ ~Validated
    /\ Bytes(call.args.buyerPubKey) = <<5>> \o Rep(0, 32)
    /\ ScriptCompiled

\* C15: the copy with the validator rejects the same key at isPoint
C15_NonPointRejected ==
    /\ Threw("generateHTLC")
    /\ Validated
    /\ Bytes(call.args.buyerPubKey) = <<5>> \o Rep(0, 32)
    /\ result.err.site = "generateHTLC"
    /\ ~ScriptCompiled

\* The steps that derive the key pair (createKeyPair, ECPair.fromPrivateKey)
KeyPairSteps ==
    {"createKeyPair:assertBufferLength", "createKeyPair:ECPair.fromPrivateKey",
     "ECPair.fromPrivateKey"}

\* The call derived a key pair: the last of those steps completed
KeyPairDerived ==
    \E k \in 1..Len(result.trace) :
        /\ result.trace[k].name \in
             {"createKeyPair:ECPair.fromPrivateKey", "ECPair.fromPrivateKey"}
        /\ k < Len(result.trace) \/ result.status = "ok"

\* The call signed the input
InputSigned ==
    \E k \in 1..Len(result.trace) :
        /\ result.trace[k].name = "psbt.signInput"
        /\ k < Len(result.trace) \/ result.status = "ok"

\* A valid scalar of the curve: 32 bytes, not all zero, below the group order
ValidScalar(key) ==
    /\ Len(key) = 32
    /\ key # Rep(0, 32)
    /\ \E k \in 1..32 : key[k] < GroupOrder[k] /\ SubSeq(key, 1, k - 1) = SubSeq(GroupOrder, 1, k - 1)

HashLockOpens(secret, script) ==
    \E k \in 1..Len(decompile(script)) :
        decompile(script)[k].k = "data" /\ decompile(script)[k].v = Sha256(secret)

\* C17: createRedeemTx does not compare SHA256(secret) with the hash in the
\* script: with any secret of 32 bytes and otherwise valid inputs (the key
\* being one of the script's) it returns a signed transaction whose witness
\* carries that secret.
C17_SecretNotCompared ==
    (SpendCallValidBut({}) /\ call.op = "createRedeemTx"
     /\ pubkeyInScript(PublicKeyOf(Bytes(call.args.privateKey)),
                       Bytes(call.args.redeemScript))) =>
        /\ result.status = "ok"
        /\ InputSigned
        /\ result.value.tx.ins[1].witness[2] = Bytes(call.args.secret)

\* A secret of 32 bytes whose hash is not the script's
C17_Witness ==
    /\ Returned("createRedeemTx")
    /\ Bytes(call.args.secret) = Rep(9, 32)
    /\ Bytes(call.args.redeemScript) = FixtureScript
    /\ ~HashLockOpens(Rep(9, 32), FixtureScript)
    /\ HashLockOpens(FixtureSecret, FixtureScript)
    /\ result.value.tx.ins[1].witness[2] = Rep(9, 32)

\* C18: the functions share no mutable state: in any order of calls each
\* call, as it finishes, has returned or thrown what it does when it is the
\* only call made, and no call, failed or not, leaves the module in a state
\* other than the initial one for later calls to observe.
C18_NoSharedState ==
    /\ hexRe = HEX_RE_object
    /\ pc = "done" => result = Execute(HEX_RE_object, call).result

\* A call that fails in the validator, then one that returns after the
\* validator has tested two of its arguments
C18_Witness ==
    /\ Len(history) = 1
    /\ history[1].call.module = "part_000"
    /\ history[1].result.status = "error"
    /\ history[1].result.err.site = "assertValidTxInput"
    /\ Returned("createRedeemTx")
    /\ Validated
    /\ call.args.secret.t = "str"

\* C19: generateSecret returns a secret of 32 bytes and a secretHash of 32
\* bytes that is SHA256 of that secret.
C19_SecretAndHash ==
    Returned("generateSecret") =>
        /\ Len(result.value.secret) = 32
        /\ Len(result.value.secretHash) = 32
        /\ result.value.secretHash = Sha256(result.value.secret)

\* A secret drawn by the copy with the validator, with bytes that differ
C19_Witness ==
    /\ Returned("generateSecret")
    /\ Validated
    /\ result.value.secret[1] # result.value.secret[2]
    /\ result.value.secretHash = Sha256(result.value.secret)

\* The three kinds of failure the functions are to report
ErrorKinds == {"ValidationError", "CryptographicError", "ConstructionError"}

\* The error is one a library threw, which the module lets through as it is
FromLibrary(err) == err = LibraryError(err.site)

\* The class of the thrown object.  Every throw statement of both copies is
\* `throw new Error(...)` and neither copy declares an error class
ThrownClass(err) == IF FromLibrary(err) THEN "a library's error" ELSE "Error"

\* The kind the message of a failure stands for, for a caller who reads
\* messages: invalid keys, failed derivations, and the input checks
MessageKind(err) ==
    IF FromLibrary(err) THEN "none"
    ELSE IF err.site = "createKeyPair" \/ Matches(err.msg, <<"secp256k1", "point">>)
    THEN "CryptographicError"
    ELSE IF Matches(err.msg, <<"Failed">>) \/ Matches(err.msg, <<"No", "signature", "found">>)
    THEN "ConstructionError"
    ELSE "ValidationError"

Failed == pc = "done" /\ result.status = "error" /\ call.op # "generateSecret"

\* C20: every failure of generateHTLC, createRedeemTx or createRefundTx is
\* reported as exactly one of three distinguishable kinds: ValidationError,
\* CryptographicError or ConstructionError.
C20_ThreeKinds == Failed => ThrownClass(result.err) \in ErrorKinds

\* C20 read by messages: every failure carries a message of one of the kinds
C20_MessageOfSomeKind == Failed => MessageKind(result.err) \in ErrorKinds

\* C20: an invalid private key and a secret of 31 bytes are both reported by
\* the copy with the validator as a plain Error
C20_PlainError ==
    /\ Threw("createRedeemTx")
    /\ Validated
    /\ result.err.site = "createKeyPair"
    /\ MessageKind(result.err) = "CryptographicError"
    /\ ThrownClass(result.err) = "Error"

\* C20: with a valid key that is not one of the script's, the copy with the
\* validator lets the library's error from psbt.signInput through
C20_LibraryErrorEscapes ==
    /\ Threw("createRedeemTx")
    /\ Validated
    /\ SpendCallValidBut({})
    /\ call.args.privateKey = Buf(Rep(51, 32))
    /\ result.err = LibraryError("psbt.signInput")

(***************************************************************************)
(* C21: the script rebuilt from a record                                   *)
(***************************************************************************)
\* C21: for the hash, keys and timeout of a contract record, generateHTLC
\* rebuilds the bytes that the funding script wrote as the record's script
\* hex: the module's encodeScriptNumber and the library's encoder give the
\* same script for every timeout in [1, 0xFFFFFF].
C21_RebuildsRecordScript ==
    (Returned("generateHTLC") /\ ValidHTLCArguments) =>
        LET a == call.args
            recorded == lockingScript(Bytes(a.secretHash), Bytes(a.buyerPubKey),
                                      Bytes(a.sellerPubKey), a.timeout.i)
        IN  /\ result.value.redeemScript = recorded
            /\ result.value.redeemScriptHex = ToHex(recorded)
            /\ encodeScriptNumber(a.timeout) = script_number_encode(a.timeout.i)

\* The timeout 128, whose script number needs the byte that keeps the sign clear
C21_Witness ==
    /\ Returned("generateHTLC")
    /\ ValidHTLCArguments
    /\ call.args.timeout = Num(128)
    /\ script_number_encode(128) = <<128, 0>>
    /\ result.value.redeemScript = lockingScript(Bytes(call.args.secretHash),
                                                 Bytes(call.args.buyerPubKey),
                                                 Bytes(call.args.sellerPubKey), 128)

(***************************************************************************)
(* C22: the two branches of the contract                                   *)
(***************************************************************************)
\* The nSequence satisfies a relative lock of the script's operand: relative
\* locks enabled, the same unit, and the 16-bit lock reached
SequenceSatisfies(timeout, sequence) ==
    /\ sequence.hi < 32768
    /\ (timeout >= 4194304) = ((sequence.hi \div 64) % 2 = 1)
    /\ timeout % 65536 <= sequence.lo

\* C22: the two branches of the contract are disjoint and chosen by the
\* witness: with [sig, S, 0x01] the script takes the OP_IF branch and
\* succeeds only if SHA256(S) = H and sig verifies under the claimer's key;
\* with [sig, empty] it takes the OP_ELSE branch and succeeds only if the
\* input's sequence satisfies the timeout and sig verifies under the
\* refunder's key; the claimer's signature never satisfies the refund branch
\* nor the refunder's the claim branch.
C22_DisjointBranches ==
    Returned("verifyInput") =>
        LET items == call.args.items
            sig == items[1]
            claimer == Signature(BUYER_PRIVATE_KEY)
            refunder == Signature(SELLER_PRIVATE_KEY)
            v == result.value
        IN  /\ (Len(items) = 3 /\ items[3] = <<1>>) =>
                 /\ v.branch = "if"
                 /\ v.ok <=> (Sha256(items[2]) = Sha256(FixtureSecret) /\ sig = claimer)
            /\ (Len(items) = 2 /\ items[2] = <<>>) =>
                 /\ v.branch = "else"
                 /\ v.ok <=> (SequenceSatisfies(call.args.timeout, call.args.sequence)
                              /\ sig = refunder)
            /\ (v.ok /\ v.branch = "else") => sig # claimer
            /\ (v.ok /\ v.branch = "if") => sig # refunder
            /\ v.ok => v.branch \in {"if", "else"}

\* The claim opens the first branch
C22_Witness ==
    /\ Returned("verifyInput")
    /\ call.args.items = <<Signature(BUYER_PRIVATE_KEY), FixtureSecret, <<1>>>>
    /\ result.value = [ok |-> TRUE, branch |-> "if"]

\* The refund opens the second branch once the sequence reaches the timeout
C22_RefundOpens ==
    /\ Returned("verifyInput")
    /\ call.args.items = <<Signature(SELLER_PRIVATE_KEY), <<>>>>
    /\ call.args.timeout = 144
    /\ call.args.sequence = UInt32(144)
    /\ result.value = [ok |-> TRUE, branch |-> "else"]

(***************************************************************************)
(* C23: DarkPool.claim_order                                               *)
(***************************************************************************)
\* The token's ledger after amount has gone from one account to another
Moved(balances, token, from, to, amount) ==
    [t \in DOMAIN balances |->
        [a \in DOMAIN balances[t] |->
            IF t # token \/ from = to THEN balances[t][a]
            ELSE IF a = from THEN balances[t][a] - amount
            ELSE IF a = to THEN balances[t][a] + amount
            ELSE balances[t][a]]]

\* SHA256(secret) = hash, on the 32 bytes of each
IsPreimage(secret, hash) == Sha256(U256Bytes(secret)) = U256Bytes(hash)

\* The order ids a transaction may name: the orders there can be, and one more
OrderIds == 0..MaxOrders

\* What a claim_order transaction of this order with this secret does
ClaimOrderEffect(order_id, secret) ==
    LET order == IF order_id < pool.world.order_count THEN pool.world.orders[order_id]
                 ELSE NoOrder
        tx == pool'.tx
    IN  /\ tx.ok => order.is_active /\ IsPreimage(secret, order.secret_hash)
        /\ tx.ok =>
             /\ pool'.world.orders =
                    [pool.world.orders EXCEPT ![order_id].is_active = FALSE]
             /\ pool'.world.balances =
                    Moved(pool.world.balances, order.token, DARKPOOL, order.seller,
                          order.amount)
             /\ pool'.world.events =
                    Append(pool.world.events,
                           [event |-> "SecretRevealed", order_id |-> order_id,
                            seller |-> order.seller, secret |-> secret,
                            amount |-> order.amount])
        /\ ~order.is_active => ~tx.ok /\ tx.error = "Order is not active"
        /\ (order.is_active /\ ~IsPreimage(secret, order.secret_hash)) =>
             ~tx.ok /\ tx.error = "Invalid secret provided"
        /\ ~tx.ok => pool'.world = pool.world

C23_NeverCreatedRefused ==
    /\ pool.tx.op = "claim_order"
    /\ pool.tx.order_id = pool.world.order_count
    /\ pool.tx.error = "Order is not active"

(***************************************************************************)
(* C24: DarkPool.cancel_order                                              *)
(***************************************************************************)
\* What a cancel_order transaction of this caller for this order does
CancelOrderEffect(caller, order_id) ==
    LET order == IF order_id < pool.world.order_count THEN pool.world.orders[order_id]
                 ELSE NoOrder
        tx == pool'.tx
    IN  /\ tx.ok =>
             /\ order.is_active
             /\ caller = order.seller
             /\ pool.block >= order.created_at + TIMEOUT_BLOCKS
        /\ tx.ok =>
             /\ pool'.world.orders =
                    [pool.world.orders EXCEPT ![order_id].is_active = FALSE]
             /\ pool'.world.balances =
                    Moved(pool.world.balances, order.token, DARKPOOL, order.seller,
                          order.amount)
        /\ ~tx.ok => pool'.world = pool.world

\* C24: cancel_order succeeds only when the order is active, the caller is
\* its seller and at least TIMEOUT_BLOCKS (1800) blocks have passed since
\* created_at: an order is never cancelled before its timeout or by anyone
\* but its seller; on success the order is inactive and its amount is back
\* with the seller.
C24_CancelOrder ==
    [][\A caller \in {ALICE, CAROL}, order_id \in OrderIds :
          CancelOrderTx(caller, order_id) => CancelOrderEffect(caller, order_id)]_vars

\* An order has been cancelled, exactly TIMEOUT_BLOCKS after it was created
C24_Witness ==
    /\ pool.tx.op = "cancel_order"
    /\ pool.tx.ok
    /\ ~pool.world.orders[pool.tx.order_id].is_active
    /\ pool.block = pool.world.orders[pool.tx.order_id].created_at + TIMEOUT_BLOCKS

\* One block before the timeout the seller has been refused
C24_TooEarlyRefused ==
    /\ pool.tx.op = "cancel_order"
    /\ pool.tx.error = "Timeout not reached"
    /\ pool.block = pool.world.orders[pool.tx.order_id].created_at + TIMEOUT_BLOCKS - 1

(***************************************************************************)
(* C26: DarkPool.create_order and the order ids                            *)
(***************************************************************************)
RECURSIVE CountCreated(_)
\* The OrderCreated events of a log: the create_order calls that succeeded
CountCreated(events) ==
    IF events = <<>> THEN 0
    ELSE (IF Head(events).event = "OrderCreated" THEN 1 ELSE 0) + CountCreated(Tail(events))

\* What a create_order transaction with these arguments does
CreateOrderEffect(caller, amount, token_address, buyer) ==
    LET tx == pool'.tx
        count == get_order_count(pool.world)
    IN  /\ tx.ok =>
             /\ tx.value = <<count>>
             /\ get_order_count(pool'.world) = count + 1
             /\ DOMAIN pool'.world.orders = DOMAIN pool.world.orders \cup {count}
             /\ \A k \in DOMAIN pool.world.orders : pool'.world.orders[k] = pool.world.orders[k]
             /\ pool'.world.orders[count].seller = caller
        /\ (\/ amount = 0
            \/ token_address = ZERO_ADDRESS
            \/ buyer = ZERO_ADDRESS
            \/ token_address \in pool.world.frozen
            \/ pool.world.balances[token_address][caller] < amount) => ~tx.ok
        /\ ~tx.ok =>
             /\ pool'.world.orders = pool.world.orders
             /\ get_order_count(pool'.world) = count

\* C26: create_order returns the current order_count as the new order's id
\* and increments it by exactly 1, so that get_order_count is the number of
\* create_order calls that succeeded, the ids are exactly 0..order_count-1
\* and no two orders share one; a create_order that fails (zero amount, zero
\* token or buyer address, failed transfer) stores nothing and leaves the
\* count as it was.
C26_OrderIds ==
    /\ [](/\ get_order_count(pool.world) = CountCreated(pool.world.events)
          /\ DOMAIN pool.world.orders = 0..(get_order_count(pool.world) - 1))
    /\ [][/\ \A caller \in {ALICE, CAROL}, amount \in OrderAmounts,
                token_address \in {ZERO_ADDRESS, USDC}, buyer \in {ZERO_ADDRESS, BOB} :
                CreateOrderTx(caller, amount, token_address, SellersHash, buyer)
                => CreateOrderEffect(caller, amount, token_address, buyer)
          /\ get_order_count(pool'.world) # get_order_count(pool.world)
                => pool'.tx.op = "create_order" /\ pool'.tx.ok]_vars

\* Two orders have been created, with the ids 0 and 1
C26_Witness ==
    /\ pool.tx.op = "create_order"
    /\ pool.tx.ok
    /\ pool.tx.value = <<1>>
    /\ get_order_count(pool.world) = 2
    /\ DOMAIN pool.world.orders = {0, 1}

\* A create_order whose transfer failed has stored nothing
C26_FailedTransfer ==
    /\ pool.tx.op = "create_order"
    /\ pool.tx.error = "Token transfer failed"
    /\ get_order_count(pool.world) = 0
    /\ pool.world.orders = <<>>

(***************************************************************************)
(* C27: an order is settled once                                           *)
(***************************************************************************)
RECURSIVE Settlements(_, _)
\* How often the log has this order claimed or cancelled
Settlements(events, order_id) ==
    IF events = <<>> THEN 0
    ELSE (IF Head(events).event \in {"SecretRevealed", "OrderCancelled"}
             /\ Head(events).order_id = order_id THEN 1 ELSE 0)
         + Settlements(Tail(events), order_id)

RECURSIVE LockedTotal(_, _)
\* What the orders below n that are still active have locked
LockedTotal(orders, n) ==
    IF n = 0 THEN 0
    ELSE (IF orders[n - 1].is_active THEN orders[n - 1].amount ELSE 0)
         + LockedTotal(orders, n - 1)

\* C27: is_active of an order only ever changes from true to false, so at
\* most one of claim_order and cancel_order ever succeeds for an order (after
\* the timeout too) and its amount leaves the contract at most once.
C27_SettledOnce ==
    /\ [](/\ \A k \in DOMAIN pool.world.orders :
               /\ Settlements(pool.world.events, k) <= 1
               /\ pool.world.orders[k].is_active <=> Settlements(pool.world.events, k) = 0
          /\ pool.world.balances[USDC][DARKPOOL] =
                 LockedTotal(pool.world.orders, pool.world.order_count))
    /\ [][\A k \in DOMAIN pool.world.orders :
             pool'.world.orders[k].is_active # pool.world.orders[k].is_active
                => pool.world.orders[k].is_active /\ ~pool'.world.orders[k].is_active]_vars

\* After its timeout the seller's cancel_order of a claimed order is refused
C27_Witness ==
    /\ pool.tx.op = "cancel_order"
    /\ pool.tx.error = "Order is not active"
    /\ pool.tx.order_id \in DOMAIN pool.world.orders
    /\ pool.block >= pool.world.orders[pool.tx.order_id].created_at + TIMEOUT_BLOCKS
    /\ \E k \in 1..Len(pool.world.events) :
          /\ pool.world.events[k].event = "SecretRevealed"
          /\ pool.world.events[k].order_id = pool.tx.order_id

ScriptTimeout(script) ==
    LET chunks == decompile(script)
        at == {k \in 2..Len(chunks) :
                  chunks[k].k = "op" /\ chunks[k].v = OP_CHECKSEQUENCEVERIFY}
    IN  IF at = {} THEN -1
        ELSE LET operand == chunks[(CHOOSE k \in at : TRUE) - 1]
             IN  IF operand.k = "data" THEN ScriptNumValue(operand.v)
                 ELSE IF operand.v > OP_RESERVED /\ operand.v <= OP_RESERVED + 16
                 THEN operand.v - OP_RESERVED
                 ELSE -1

\* C28: createRefundTx returns a transaction only if its timeout argument
\* equals the timeout encoded in the OP_ELSE branch of the script it is
\* given, so that the input's sequence always satisfies the script's
\* relative lock.
C28_RefundTimeoutIsScripts ==
    Returned("createRefundTx") =>
        /\ call.args.timeout.i = ScriptTimeout(Bytes(call.args.redeemScript))
        /\ CheckSequence(ScriptTimeout(Bytes(call.args.redeemScript)),
                         result.value.tx.version, result.value.tx.ins[1].sequence)

\* The copy with the validator has returned a refund with the sequence 10 for
\* a contract whose script demands 144, signed by the seller: the network
\* refuses the input
C28_RefundBelowScriptsTimeout ==
    /\ Returned("createRefundTx")
    /\ call.module = "part_000"
    /\ call.args.timeout = Num(10)
    /\ Bytes(call.args.redeemScript) = FixtureScript
    /\ ScriptTimeout(FixtureScript) = 144
    /\ Bytes(call.args.privateKey) = SELLER_PRIVATE_KEY
    /\ result.value.tx.ins[1].sequence = UInt32(10)
    /\ ~VerifyInput(p2wsh(FixtureScript, TESTNET).hash, result.value.tx.ins[1].witness,
                    result.value.tx.version, result.value.tx.ins[1].sequence).ok

(***************************************************************************)
(* C29: what the refund's sequence denotes                                 *)
(***************************************************************************)
\* C29: for every timeout that generateHTLC and createRefundTx accept (the
\* integers of [1, 0xFFFFFF]) the 32-bit sequence of the refund's input
\* denotes a relative lock of exactly timeout blocks: its bits 31 and 22 are
\* clear and the whole value lies in the 16-bit lock field, the timeout being
\* at most 0xFFFF.
C29_SequenceIsBlockLock ==
    Returned("createRefundTx") =>
        LET sequence == result.value.tx.ins[1].sequence
        IN  /\ sequence.hi < 32768
            /\ (sequence.hi \div 64) % 2 = 0
            /\ sequence.hi = 0
            /\ sequence.lo = call.args.timeout.i
            /\ call.args.timeout.i <= 65535

\* The copy with the validator has returned a refund for the timeout 0xFFFFFF:
\* bit 22 of its sequence is set, and the lock is one of time
C29_TimeLockReturned ==
    /\ Returned("createRefundTx")
    /\ call.module = "part_000"
    /\ call.args.timeout = Num(MAX_TIMEOUT)
    /\ result.value.tx.ins[1].sequence = [hi |-> 255, lo |-> 65535]
    /\ (result.value.tx.ins[1].sequence.hi \div 64) % 2 = 1

(***************************************************************************)
(* C30: the simulations of the frontend                                    *)
(***************************************************************************)
\* C30: at most one handleSwap simulation is in progress at any time: under
\* any sequence of clicks on 'Create Order' and 'Reset Demo' no simulation is
\* started while an earlier one is still advancing demoStep, so demoStep is
\* never written by two loops in turn, and it stays in 0..6.
C30_OneSimulation ==
    /\ Len(ui.loops) <= 1
    /\ ui.demoStep \in 0..6

\* Two loops are waiting on their timers, the button enabled again: the second
\* was started with demoStep still 6, 'Reset Demo' has been clicked, and a
\* third can be started
C30_TwoSimulations ==
    /\ Len(ui.loops) = 2
    /\ ui.loops[1] > ui.loops[2]
    /\ ui.demoStep \in 0..6

\* 'Reset Demo' has enabled 'Create Order' while a loop is waiting
C30_ResetWhileSwapping ==
    /\ Len(ui.loops) = 1
    /\ ui.loops[1] = 0
    /\ ~ui.isSwapping
    /\ ui.demoStep = 0
    /\ ui.activeTab = "swap"

====
